---- MODULE Spec2Model ----
(***************************************************************************)
(* Verification model of the project classification engine of the CI/CD    *)
(* generator: ProjectAnalyzer (src/src/project_analyzer.py), the           *)
(* DockerfileParser it calls (src/src/dockerfile_parser.py) and the test   *)
(* framework classifier TestFramework (src/src/test_analyzer.py).          *)
(*                                                                         *)
(* A project directory is a function from entry names to file contents.    *)
(* A file content is a record [readable, lines]; a line is the sequence of *)
(* the fields that a single blank separates, so the text of a line is its  *)
(* fields joined by " " (<<"go", "">> is the text "go ").                  *)
(***************************************************************************)
EXTENDS Integers, Sequences, FiniteSets, TLC

VARIABLES
    fs,          \* the project directory: entry name -> file content
    docker_gen,  \* ProjectAnalyzer.docker_gen (constructor argument)
    pc,          \* position inside ProjectAnalyzer._analyze / the direct call made
    data,        \* ProjectAnalyzer.data: key -> value, keys appear as they are set
    raised,      \* the exception that escaped, "none" while there is none
    arg,         \* the language argument of a direct method call
    ret,         \* the results of direct method calls: method name -> result;
                 \* of TestFramework, the last call: [op, path, value]
    tree,        \* the directory TestFramework works on: path -> entry
    test_files,  \* TestFramework.test_files
    projects     \* TestFramework.projects

vars == <<fs, docker_gen, pc, data, raised, arg, ret, tree, test_files, projects>>

-----------------------------------------------------------------------------
(* Bounds of the model *)

MaxEntries == 2     \* entries of a project directory that _analyze is run on
MaxLines == 2       \* lines of a manifest handed to a directly called resolver
MaxFiles == 3       \* entries of a project tree handed to TestFramework
MaxMarkers == 2     \* entries of a project candidate handed to discover_projects

-----------------------------------------------------------------------------
(* Values *)

None == "None"

NoError == "none"

Ok(v) == [exc |-> NoError, val |-> v]

Raise(e) == [exc |-> e, val |-> None]

EmptyDir == [n \in {} |-> None]

File(ls) == [readable |-> TRUE, lines |-> ls]

\* A path that exists but whose open() raises OSError (no permission, or a
\* directory of that name).
Unreadable == [readable |-> FALSE, lines |-> <<>>]

-----------------------------------------------------------------------------
(* The registry: ProjectAnalyzer.LANGUAGE_MARKERS, in dict (insertion) order *)

LANGUAGE_MARKERS == <<
    [language |-> "python",
     high |-> <<"requirements.txt", "setup.py", "pyproject.toml", "Pipfile">>,
     medium |-> <<"*.py">>],
    [language |-> "go", high |-> <<"go.mod">>, medium |-> <<"*.go">>],
    [language |-> "node", high |-> <<"package.json">>,
     medium |-> <<"*.js", "*.ts", "*.tsx">>],
    [language |-> "typescript", high |-> <<"tsconfig.json">>,
     medium |-> <<"*.ts", "*.tsx">>],
    [language |-> "java", high |-> <<"pom.xml", "build.gradle">>,
     medium |-> <<"*.java">>],
    [language |-> "kotlin",
     high |-> <<"pom.xml", "build.gradle", "build.gradle.kts">>,
     medium |-> <<"*.kt">>],
    [language |-> "php", high |-> <<"composer.json">>, medium |-> <<"*.php">>],
    [language |-> "rust", high |-> <<"Cargo.toml">>, medium |-> <<"*.rs">>],
    [language |-> "ruby", high |-> <<"Gemfile">>, medium |-> <<"*.rb">>] >>

Languages == {LANGUAGE_MARKERS[i].language : i \in 1..Len(LANGUAGE_MARKERS)}

RegistryIndex(l) == CHOOSE i \in 1..Len(LANGUAGE_MARKERS) : LANGUAGE_MARKERS[i].language = l

HighMarkers(l) ==
    LET m == LANGUAGE_MARKERS[RegistryIndex(l)].high IN {m[i] : i \in 1..Len(m)}

MediumMarkers(l) ==
    LET m == LANGUAGE_MARKERS[RegistryIndex(l)].medium IN {m[i] : i \in 1..Len(m)}

AllHighMarkers == UNION {HighMarkers(l) : l \in Languages}

-----------------------------------------------------------------------------
(* Entry names and glob matching *)

\* One file per MEDIUM pattern, and a dot-file with a source extension.
SourceFiles == {"main.py", "main.go", "app.js", "app.ts", "App.tsx", "Main.java",
                "Main.kt", "index.php", "main.rs", "app.rb", ".conf.py"}

OtherFiles == {"rust-toolchain", ".ruby-version", "Dockerfile",
               "docker-compose.yml", "README.md"}

Names == AllHighMarkers \cup SourceFiles \cup OtherFiles

\* The part of a glob pattern after its "*"; the patterns of the registry all
\* have the form "*<suffix>".
StarSuffix(pattern) ==
    CASE pattern = "*.py" -> ".py"     [] pattern = "*.go" -> ".go"
      [] pattern = "*.js" -> ".js"     [] pattern = "*.ts" -> ".ts"
      [] pattern = "*.tsx" -> ".tsx"   [] pattern = "*.java" -> ".java"
      [] pattern = "*.kt" -> ".kt"     [] pattern = "*.php" -> ".php"
      [] pattern = "*.rs" -> ".rs"     [] pattern = "*.rb" -> ".rb"
      [] OTHER -> None

\* '*' in pattern
HasStar(pattern) == StarSuffix(pattern) # None

\* The text of a name from its last "." on.
Ext(name) ==
    CASE name \in {"main.py", ".conf.py", "setup.py"} -> ".py"
      [] name = "main.go" -> ".go"     [] name = "app.js" -> ".js"
      [] name = "app.ts" -> ".ts"      [] name = "App.tsx" -> ".tsx"
      [] name = "Main.java" -> ".java" [] name = "Main.kt" -> ".kt"
      [] name = "index.php" -> ".php"  [] name = "main.rs" -> ".rs"
      [] name = "app.rb" -> ".rb"
      [] name \in {"requirements.txt"} -> ".txt"
      [] name \in {"pyproject.toml", "Cargo.toml"} -> ".toml"
      [] name \in {"package.json", "tsconfig.json", "composer.json"} -> ".json"
      [] name = "pom.xml" -> ".xml"    [] name = "README.md" -> ".md"
      [] name = "go.mod" -> ".mod"     [] name = "build.gradle" -> ".gradle"
      [] name = "build.gradle.kts" -> ".kts"
      [] name = "docker-compose.yml" -> ".yml"
      [] name = ".ruby-version" -> ".ruby-version"
      [] OTHER -> ""

\* Names that begin with ".": glob's "*" does not match them.
Hidden(name) == name \in {".conf.py", ".ruby-version"}

\* glob.glob(os.path.join(project_path, pattern)) for a pattern "*<suffix>":
\* the names of the directory that end with the suffix and do not begin with ".".
glob(d, pattern) ==
    {n \in DOMAIN d : ~Hidden(n) /\ Ext(n) = StarSuffix(pattern)}

\* Mutant: the pattern is looked up as a path, without globbing.
file_exists_exact(d, pattern) == pattern \in DOMAIN d

file_exists(d, pattern) ==
    IF HasStar(pattern) THEN glob(d, pattern) # {} ELSE pattern \in DOMAIN d

-----------------------------------------------------------------------------
(* ProjectAnalyzer._detect_language *)

\* Mutant: the scan starts one marker too late.
RECURSIVE first_marker_skip(_, _, _)
first_marker_skip(d, markers, i) ==
    IF i + 1 > Len(markers) THEN None
    ELSE IF file_exists(d, markers[i + 1]) THEN markers[i + 1]
    ELSE first_marker_skip(d, markers, i + 1)

\* for marker in markers: if self._file_exists(marker): ...; break
RECURSIVE first_marker(_, _, _)
first_marker(d, markers, i) ==
    IF i > Len(markers) THEN None
    ELSE IF file_exists(d, markers[i]) THEN markers[i]
    ELSE first_marker(d, markers, i + 1)

\* The dict `detections` after the loop over the registry, as the sequence of
\* its items in insertion order.
RECURSIVE scan_languages(_, _)
scan_languages(d, i) ==
    IF i > Len(LANGUAGE_MARKERS) THEN <<>>
    ELSE LET m == LANGUAGE_MARKERS[i]
             h == first_marker(d, m.high, 1)
             md == first_marker(d, m.medium, 1)
             item == IF h # None
                     THEN <<[language |-> m.language, marker |-> h, confidence |-> "high"]>>
                     ELSE IF md # None
                     THEN <<[language |-> m.language, marker |-> md, confidence |-> "medium"]>>
                     ELSE <<>>
         IN item \o scan_languages(d, i + 1)

\* Mutant: both tiers weigh the same.
priority_flat(tier) == CASE tier = "high" -> 2 [] tier = "medium" -> 2 [] OTHER -> 0

\* priority.get(tier, 0)
priority(tier) == CASE tier = "high" -> 3 [] tier = "medium" -> 2 [] OTHER -> 0

\* Mutant: the last item whose key is the greatest.
RECURSIVE max_detection_last(_, _, _)
max_detection_last(items, i, best) ==
    IF i > Len(items) THEN best
    ELSE max_detection_last(items, i + 1,
                            IF priority(items[i].confidence) >= priority(best.confidence)
                            THEN items[i] ELSE best)

\* max(items, key=...): the first item whose key is the greatest.
RECURSIVE max_detection(_, _, _)
max_detection(items, i, best) ==
    IF i > Len(items) THEN best
    ELSE max_detection(items, i + 1,
                       IF priority(items[i].confidence) > priority(best.confidence)
                       THEN items[i] ELSE best)

\* Mutant: python is substituted when nothing is detected.
detect_language_default(d) ==
    LET items == scan_languages(d, 1)
    IN IF items = <<>>
       THEN [language |-> "python", marker |-> None, confidence |-> "none"]
       ELSE max_detection(items, 2, items[1])

detect_language(d) ==
    LET items == scan_languages(d, 1)
    IN IF items = <<>>
       THEN [language |-> "unknown", marker |-> None, confidence |-> "none"]
       ELSE max_detection(items, 2, items[1])

-----------------------------------------------------------------------------
(* Text helpers *)

NonEmpty(f) == f # ""

\* str.split(): the fields that are not empty
split(line) == SelectSeq(line, NonEmpty)

RECURSIVE Flatten(_)
Flatten(ls) == IF ls = <<>> THEN <<>> ELSE Head(ls) \o Flatten(Tail(ls))

\* The fields of the whole text, a line break counted as one more separator:
\* between two lines stands the marker "\n".
RECURSIVE TextFields(_)
TextFields(ls) ==
    IF ls = <<>> THEN <<>>
    ELSE IF Len(ls) = 1 THEN ls[1]
    ELSE ls[1] \o <<"\n">> \o TextFields(Tail(ls))

IsBlank(f) == f \in {"", "\n"}

RECURSIVE DropLeadingBlank(_)
DropLeadingBlank(fields) ==
    IF fields # <<>> /\ IsBlank(Head(fields)) THEN DropLeadingBlank(Tail(fields)) ELSE fields

RECURSIVE DropTrailingBlank(_)
DropTrailingBlank(fields) ==
    IF fields # <<>> /\ IsBlank(fields[Len(fields)])
    THEN DropTrailingBlank(SubSeq(fields, 1, Len(fields) - 1)) ELSE fields

RECURSIVE Render(_)
Render(fields) ==
    IF fields = <<>> THEN ""
    ELSE IF Len(fields) = 1 THEN fields[1]
    ELSE IF fields[1] = "\n" THEN "\n" \o Render(Tail(fields))
    ELSE IF fields[2] = "\n" THEN fields[1] \o Render(Tail(fields))
    ELSE fields[1] \o " " \o Render(Tail(fields))

\* f.read().strip(): the text without the white space at its two ends
read_strip(ls) == Render(DropTrailingBlank(DropLeadingBlank(TextFields(ls))))

-----------------------------------------------------------------------------
(* What the regular expressions and substring tests of the resolvers find in *)
(* the words of the manifests                                               *)

\* re.search(r'python_requires.*?(3\.\d+)', w) inside one word: group(1)
PyRequiresIn(w) ==
    CASE w = "python_requires>=3.9" -> "3.9"
      [] OTHER -> None

\* 'python_requires' in w
HasPyRequires(w) == w \in {"python_requires>=3.9", "python_requires"}

\* re.search(r'3\.\d+', w): the match
Py3In(w) ==
    CASE w = "python_requires>=3.9" -> "3.9"
      [] w = ">=3.10" -> "3.10"
      [] OTHER -> None

\* re.search(r'<source>(1\.\d+|11|17|21)</source>', w): group(1)
JavaSourceIn(w) ==
    CASE w = "<source>17</source>" -> "17"
      [] w = "<source>1.8</source>" -> "1.8"
      [] OTHER -> None

\* re.search(r'\d+', v): the match
DigitsIn(v) ==
    CASE v = ">=18" -> "18"
      [] v = "^4.18" -> "4"
      [] v = "^8.1" -> "8"
      [] v = ">=7" -> "7"
      [] OTHER -> None

\* re.search(r'\d+\.\d+', v): the match
DottedIn(v) ==
    CASE v = "^8.1" -> "8.1"
      [] v = "^4.18" -> "4.18"
      [] OTHER -> None

\* A member of a JSON object, written "<key>.<subkey>:<value>"
JsonMember(tok) ==
    CASE tok = "engines.node:>=18" -> [key |-> "engines", sub |-> "node", value |-> ">=18"]
      [] tok = "engines.node:lts" -> [key |-> "engines", sub |-> "node", value |-> "lts"]
      [] tok = "dependencies.express:^4.18" ->
            [key |-> "dependencies", sub |-> "express", value |-> "^4.18"]
      [] tok = "dependencies.koa:^2" ->
            [key |-> "dependencies", sub |-> "koa", value |-> "^2"]
      [] tok = "devDependencies.@nestjs/core:^10" ->
            [key |-> "devDependencies", sub |-> "@nestjs/core", value |-> "^10"]
      [] tok = "devDependencies.react:^18" ->
            [key |-> "devDependencies", sub |-> "react", value |-> "^18"]
      [] tok = "require.php:^8.1" -> [key |-> "require", sub |-> "php", value |-> "^8.1"]
      [] tok = "require.php:>=7" -> [key |-> "require", sub |-> "php", value |-> ">=7"]
      [] tok = "require.laravel/framework:^10" ->
            [key |-> "require", sub |-> "laravel/framework", value |-> "^10"]
      [] OTHER -> None

IsJsonMember(tok) ==
    tok \in {"engines.node:>=18", "engines.node:lts", "dependencies.express:^4.18",
             "dependencies.koa:^2", "devDependencies.@nestjs/core:^10",
             "devDependencies.react:^18", "require.php:^8.1", "require.php:>=7",
             "require.laravel/framework:^10"}

\* json.load(f): the members of the object, in document order, or the decoder's
\* error. The text is an object when its words are "{", members, "}".
json_load(ls) ==
    LET toks == split(Flatten(ls))
        n == Len(toks)
    IN IF n >= 2 /\ toks[1] = "{" /\ toks[n] = "}"
          /\ \A i \in 2..(n - 1) : IsJsonMember(toks[i])
       THEN Ok([i \in 1..(n - 2) |-> JsonMember(toks[i + 1])])
       ELSE Raise("JSONDecodeError")

\* obj[key][sub]: the value of the last member with that key and subkey (a
\* repeated key keeps its last value), None when there is none
RECURSIVE json_get(_, _, _, _)
json_get(members, key, sub, i) ==
    IF i = 0 THEN None
    ELSE IF members[i].key = key /\ members[i].sub = sub THEN members[i].value
    ELSE json_get(members, key, sub, i - 1)

-----------------------------------------------------------------------------
(* ProjectAnalyzer._detect_version and the resolvers it dispatches to.      *)
(* Each returns Ok(version) or Raise(exception).                            *)

\* The match of python_requires.*?(3\.\d+) in one line ("." stops at the line
\* end): the first 3.N after the first python_requires of the line.
RECURSIVE first_py3(_, _)
first_py3(fields, i) ==
    IF i > Len(fields) THEN None
    ELSE IF Py3In(fields[i]) # None THEN Py3In(fields[i])
    ELSE first_py3(fields, i + 1)

RECURSIVE python_requires_line(_, _)
python_requires_line(fields, i) ==
    IF i > Len(fields) THEN None
    ELSE IF HasPyRequires(fields[i])
         THEN IF PyRequiresIn(fields[i]) # None THEN PyRequiresIn(fields[i])
              ELSE first_py3(fields, i + 1)
    ELSE python_requires_line(fields, i + 1)

RECURSIVE python_requires_search(_, _)
python_requires_search(ls, i) ==
    IF i > Len(ls) THEN None
    ELSE IF python_requires_line(ls[i], 1) # None THEN python_requires_line(ls[i], 1)
    ELSE python_requires_search(ls, i + 1)

detect_python_version(d) ==
    IF "requirements.txt" \in DOMAIN d
    THEN IF ~d["requirements.txt"].readable THEN Raise("OSError")
         ELSE LET m == python_requires_search(d["requirements.txt"].lines, 1)
              IN IF m # None THEN Ok(m) ELSE Ok("3.11")
    ELSE Ok("3.11")

\* for line in f: if line.startswith('go '): return line.split()[1].strip()
RECURSIVE go_directive(_, _)
go_directive(ls, i) ==
    IF i > Len(ls) THEN Ok("1.21")
    ELSE IF Len(ls[i]) >= 2 /\ ls[i][1] = "go"
         THEN IF Len(split(ls[i])) >= 2 THEN Ok(split(ls[i])[2])
              ELSE Raise("IndexError")
    ELSE go_directive(ls, i + 1)

detect_go_version(d) ==
    IF "go.mod" \in DOMAIN d
    THEN IF ~d["go.mod"].readable THEN Raise("OSError")
         ELSE go_directive(d["go.mod"].lines, 1)
    ELSE Ok("1.21")

\* the whole body is inside try/except: every failure gives the default
detect_node_version(d) ==
    IF "package.json" \in DOMAIN d /\ d["package.json"].readable
    THEN LET pkg == json_load(d["package.json"].lines)
         IN IF pkg.exc # NoError THEN Ok("20")
            ELSE LET v == json_get(pkg.val, "engines", "node", Len(pkg.val))
                 IN IF v # None /\ DigitsIn(v) # None THEN Ok(DigitsIn(v)) ELSE Ok("20")
    ELSE Ok("20")

RECURSIVE java_source_search(_, _)
java_source_search(fields, i) ==
    IF i > Len(fields) THEN None
    ELSE IF JavaSourceIn(fields[i]) # None THEN JavaSourceIn(fields[i])
    ELSE java_source_search(fields, i + 1)

detect_java_version(d) ==
    IF "pom.xml" \in DOMAIN d
    THEN IF ~d["pom.xml"].readable THEN Raise("OSError")
         ELSE LET m == java_source_search(Flatten(d["pom.xml"].lines), 1)
              IN IF m # None THEN Ok(m) ELSE Ok("17")
    ELSE Ok("17")

detect_php_version(d) ==
    IF "composer.json" \in DOMAIN d /\ d["composer.json"].readable
    THEN LET doc == json_load(d["composer.json"].lines)
         IN IF doc.exc # NoError THEN Ok("8.2")
            ELSE LET v == json_get(doc.val, "require", "php", Len(doc.val))
                 IN IF v # None /\ DottedIn(v) # None THEN Ok(DottedIn(v)) ELSE Ok("8.2")
    ELSE Ok("8.2")

detect_rust_version(d) ==
    IF "rust-toolchain" \in DOMAIN d
    THEN IF ~d["rust-toolchain"].readable THEN Raise("OSError")
         ELSE Ok(read_strip(d["rust-toolchain"].lines))
    ELSE Ok("latest")

detect_ruby_version(d) ==
    IF ".ruby-version" \in DOMAIN d
    THEN IF ~d[".ruby-version"].readable THEN Raise("OSError")
         ELSE Ok(read_strip(d[".ruby-version"].lines))
    ELSE Ok("3.2")

\* Mutant: kotlin is left out of the dispatch.
detect_version_java_only(d, language) ==
    CASE language = "python" -> detect_python_version(d)
      [] language = "go" -> detect_go_version(d)
      [] language \in {"node", "typescript"} -> detect_node_version(d)
      [] language = "java" -> detect_java_version(d)
      [] language = "php" -> detect_php_version(d)
      [] language = "rust" -> detect_rust_version(d)
      [] language = "ruby" -> detect_ruby_version(d)
      [] OTHER -> Ok("latest")

detect_version(d, language) ==
    CASE language = "python" -> detect_python_version(d)
      [] language = "go" -> detect_go_version(d)
      [] language \in {"node", "typescript"} -> detect_node_version(d)
      [] language \in {"java", "kotlin"} -> detect_java_version(d)
      [] language = "php" -> detect_php_version(d)
      [] language = "rust" -> detect_rust_version(d)
      [] language = "ruby" -> detect_ruby_version(d)
      [] OTHER -> Ok("latest")

-----------------------------------------------------------------------------
(* ProjectAnalyzer.FRAMEWORK_DETECTION, each table in dict order, and        *)
(* ProjectAnalyzer._detect_framework                                         *)

FRAMEWORK_DETECTION(language) ==
    CASE language = "python" -> <<
            [framework |-> "Django", markers |-> <<"django", "Django">>],
            [framework |-> "Flask", markers |-> <<"flask", "Flask">>],
            [framework |-> "FastAPI", markers |-> <<"fastapi", "FastAPI">>],
            [framework |-> "Tornado", markers |-> <<"tornado">>],
            [framework |-> "Pyramid", markers |-> <<"pyramid">>] >>
      [] language = "go" -> <<
            [framework |-> "Gin", markers |-> <<"gin-gonic/gin", "github.com/gin-gonic/gin">>],
            [framework |-> "Echo", markers |-> <<"labstack/echo", "github.com/labstack/echo">>],
            [framework |-> "Fiber", markers |-> <<"gofiber/fiber", "github.com/gofiber/fiber">>],
            [framework |-> "Chi", markers |-> <<"go-chi/chi", "github.com/go-chi/chi">>],
            [framework |-> "Beego", markers |-> <<"beego/beego", "github.com/beego/beego">>],
            [framework |-> "Gorilla Mux", markers |-> <<"gorilla/mux", "github.com/gorilla/mux">>] >>
      [] language = "node" -> <<
            [framework |-> "Express", markers |-> <<"express">>],
            [framework |-> "NestJS", markers |-> <<"@nestjs/core">>],
            [framework |-> "Koa", markers |-> <<"koa">>],
            [framework |-> "Fastify", markers |-> <<"fastify">>],
            [framework |-> "Next.js", markers |-> <<"next">>] >>
      [] language = "typescript" -> <<
            [framework |-> "Express", markers |-> <<"express">>],
            [framework |-> "NestJS", markers |-> <<"@nestjs/core">>],
            [framework |-> "Angular", markers |-> <<"@angular/core">>],
            [framework |-> "React", markers |-> <<"react">>],
            [framework |-> "Vue", markers |-> <<"vue">>],
            [framework |-> "Next.js", markers |-> <<"next">>] >>
      [] language = "java" -> <<
            [framework |-> "Spring Boot", markers |-> <<"spring-boot", "org.springframework.boot">>],
            [framework |-> "Spring", markers |-> <<"springframework">>],
            [framework |-> "Quarkus", markers |-> <<"quarkus">>],
            [framework |-> "Micronaut", markers |-> <<"micronaut">>],
            [framework |-> "Vert.x", markers |-> <<"vertx">>] >>
      [] language = "kotlin" -> <<
            [framework |-> "Spring Boot", markers |-> <<"spring-boot">>],
            [framework |-> "Ktor", markers |-> <<"ktor", "io.ktor">>],
            [framework |-> "Micronaut", markers |-> <<"micronaut">>],
            [framework |-> "Quarkus", markers |-> <<"quarkus">>] >>
      [] OTHER -> <<>>

\* language in self.FRAMEWORK_DETECTION
HasFrameworkTable(language) ==
    language \in {"python", "go", "node", "typescript", "java", "kotlin"}

\* str.lower()
Lower(w) ==
    CASE w = "Django>=4.0" -> "django>=4.0"
      [] w = "Django" -> "django"
      [] w = "Flask" -> "flask"
      [] w = "FastAPI" -> "fastapi"
      [] OTHER -> w

\* The framework identifiers that occur in a word as substrings (the words of
\* the manifests, written as they stand in the file).
Substrings(w) ==
    CASE w \in {"django>=4.0", "django>=4.2", "django"} -> {"django"}
      [] w = "Django>=4.0" -> {"Django"}
      [] w \in {"flask==2.0", "flask"} -> {"flask"}
      [] w = "fastapi" -> {"fastapi"}
      [] w = "tornado" -> {"tornado"}
      [] w = "pyramid" -> {"pyramid"}
      [] w = "github.com/gin-gonic/gin" -> {"gin-gonic/gin", "github.com/gin-gonic/gin"}
      [] w = "github.com/labstack/echo/v4" -> {"labstack/echo", "github.com/labstack/echo"}
      [] w = "<artifactId>spring-boot-starter</artifactId>" -> {"spring-boot"}
      [] w = "<groupId>org.springframework</groupId>" -> {"springframework"}
      [] w = "<artifactId>quarkus-core</artifactId>" -> {"quarkus"}
      [] w \in {"org.springframework.boot", "id(org.springframework.boot)"} ->
            {"org.springframework.boot", "springframework"}
      [] w = "org.springframework:spring-core" -> {"springframework"}
      [] w = "io.quarkus:quarkus-core" -> {"quarkus"}
      [] w = "implementation(io.ktor:ktor-server-core)" -> {"ktor", "io.ktor"}
      [] OTHER -> {}

\* marker in content, for a marker without white space
InText(marker, words) == \E i \in 1..Len(words) : marker \in Substrings(words[i])

LowerAll(words) == [i \in 1..Len(words) |-> Lower(words[i])]

\* any(marker in content for marker in markers)
any_marker(markers, words) == \E j \in 1..Len(markers) : InText(markers[j], words)

\* for framework, markers in frameworks.items(): if any(...): return framework
RECURSIVE scan_frameworks(_, _, _)
scan_frameworks(frameworks, words, i) ==
    IF i > Len(frameworks) THEN None
    ELSE IF any_marker(frameworks[i].markers, words) THEN frameworks[i].framework
    ELSE scan_frameworks(frameworks, words, i + 1)

\* Mutant: the table is walked from its end.
RECURSIVE scan_frameworks_lower_last(_, _, _)
scan_frameworks_lower_last(frameworks, words, i) ==
    IF i > Len(frameworks) THEN None
    ELSE LET k == Len(frameworks) + 1 - i
         IN IF any_marker(LowerAll(frameworks[k].markers), LowerAll(words))
            THEN frameworks[k].framework
            ELSE scan_frameworks_lower_last(frameworks, words, i + 1)

\* the same with marker.lower() and content = f.read().lower()
RECURSIVE scan_frameworks_lower(_, _, _)
scan_frameworks_lower(frameworks, words, i) ==
    IF i > Len(frameworks) THEN None
    ELSE IF any_marker(LowerAll(frameworks[i].markers), LowerAll(words))
         THEN frameworks[i].framework
    ELSE scan_frameworks_lower(frameworks, words, i + 1)

detect_go_framework(d, frameworks) ==
    IF "go.mod" \in DOMAIN d
    THEN IF ~d["go.mod"].readable THEN Raise("OSError")
         ELSE Ok(scan_frameworks(frameworks, Flatten(d["go.mod"].lines), 1))
    ELSE Ok(None)

\* requirements.txt first; pyproject.toml is looked at only when
\* requirements.txt is absent or names no framework
detect_python_framework(d, frameworks) ==
    LET req == IF "requirements.txt" \in DOMAIN d
               THEN IF ~d["requirements.txt"].readable THEN Raise("OSError")
                    ELSE Ok(scan_frameworks_lower(frameworks,
                                                  Flatten(d["requirements.txt"].lines), 1))
               ELSE Ok(None)
        pyp == IF "pyproject.toml" \in DOMAIN d
               THEN IF ~d["pyproject.toml"].readable THEN Raise("OSError")
                    ELSE Ok(scan_frameworks_lower(frameworks,
                                                  Flatten(d["pyproject.toml"].lines), 1))
               ELSE Ok(None)
    IN IF req.exc # NoError \/ req.val # None THEN req ELSE pyp

\* the keys of {**pkg.get('dependencies', {}), **pkg.get('devDependencies', {})}
dependency_keys(members) ==
    {members[i].sub : i \in {j \in 1..Len(members) :
                                members[j].key \in {"dependencies", "devDependencies"}}}

\* for framework, markers in frameworks.items(): if any(marker in deps ...)
RECURSIVE scan_frameworks_keys(_, _, _)
scan_frameworks_keys(frameworks, deps, i) ==
    IF i > Len(frameworks) THEN None
    ELSE IF \E j \in 1..Len(frameworks[i].markers) : frameworks[i].markers[j] \in deps
         THEN frameworks[i].framework
    ELSE scan_frameworks_keys(frameworks, deps, i + 1)

\* the whole body is inside try/except: every failure gives None
detect_node_framework(d, frameworks) ==
    IF "package.json" \in DOMAIN d /\ d["package.json"].readable
    THEN LET pkg == json_load(d["package.json"].lines)
         IN IF pkg.exc # NoError THEN Ok(None)
            ELSE Ok(scan_frameworks_keys(frameworks, dependency_keys(pkg.val), 1))
    ELSE Ok(None)

\* pom.xml, then build.gradle, then build.gradle.kts: the first file that names
\* a framework decides
RECURSIVE scan_java_files(_, _, _, _)
scan_java_files(d, frameworks, files, i) ==
    IF i > Len(files) THEN Ok(None)
    ELSE IF files[i] \in DOMAIN d
         THEN IF ~d[files[i]].readable THEN Raise("OSError")
              ELSE LET r == scan_frameworks(frameworks, Flatten(d[files[i]].lines), 1)
                   IN IF r # None THEN Ok(r)
                      ELSE scan_java_files(d, frameworks, files, i + 1)
    ELSE scan_java_files(d, frameworks, files, i + 1)

detect_java_framework(d, frameworks) ==
    scan_java_files(d, frameworks, <<"pom.xml", "build.gradle", "build.gradle.kts">>, 1)

detect_framework(d, language) ==
    IF ~HasFrameworkTable(language) THEN Ok(None)
    ELSE LET frameworks == FRAMEWORK_DETECTION(language)
         IN CASE language = "python" -> detect_python_framework(d, frameworks)
              [] language \in {"node", "typescript"} -> detect_node_framework(d, frameworks)
              [] language \in {"java", "kotlin"} -> detect_java_framework(d, frameworks)
              [] language = "go" -> detect_go_framework(d, frameworks)
              [] OTHER -> Ok(<<>>)

-----------------------------------------------------------------------------
(* ProjectAnalyzer._detect_artifact_paths and _get_build_image *)

Artifact(cmd, path, name, type) ==
    [build_command |-> cmd, artifact_path |-> path, artifact_name |-> name,
     artifact_type |-> type]

\* Mutant: the rust row names its artifact kind "crate".
detect_artifact_paths_crate(language) ==
    CASE language = "python" ->
            Artifact("python setup.py bdist_wheel", "dist/*.whl", "*.whl", "wheel")
      [] language = "go" -> Artifact("go build -o app .", "app", "app", "binary")
      [] language \in {"node", "typescript"} ->
            Artifact("npm run build && npm pack", "*.tgz", "*.tgz", "npm")
      [] language \in {"java", "kotlin"} ->
            Artifact("mvn clean package", "target/*.jar", "*.jar", "jar")
      [] language = "php" ->
            Artifact("composer install --no-dev", "vendor/", "vendor", "composer")
      [] language = "rust" ->
            Artifact("cargo build --release", "target/release/app", "app", "crate")
      [] language = "ruby" -> Artifact("gem build *.gemspec", "*.gem", "*.gem", "gem")
      [] OTHER -> Artifact("echo \"No build command\"", "*", "*", "unknown")

detect_artifact_paths(language) ==
    CASE language = "python" ->
            Artifact("python setup.py bdist_wheel", "dist/*.whl", "*.whl", "wheel")
      [] language = "go" -> Artifact("go build -o app .", "app", "app", "binary")
      [] language = "node" -> Artifact("npm run build && npm pack", "*.tgz", "*.tgz", "npm")
      [] language = "typescript" ->
            Artifact("npm run build && npm pack", "*.tgz", "*.tgz", "npm")
      [] language = "java" -> Artifact("mvn clean package", "target/*.jar", "*.jar", "jar")
      [] language = "kotlin" -> Artifact("mvn clean package", "target/*.jar", "*.jar", "jar")
      [] language = "php" ->
            Artifact("composer install --no-dev", "vendor/", "vendor", "composer")
      [] language = "rust" ->
            Artifact("cargo build --release", "target/release/app", "app", "binary")
      [] language = "ruby" -> Artifact("gem build *.gemspec", "*.gem", "*.gem", "gem")
      [] OTHER -> Artifact("echo \"No build command\"", "*", "*", "unknown")

get_build_image(language, version) ==
    CASE language = "python" -> "python:" \o version \o "-slim"
      [] language = "go" -> "golang:" \o version \o "-alpine"
      [] language \in {"node", "typescript"} -> "node:" \o version \o "-alpine"
      [] language \in {"java", "kotlin"} -> "maven:3.9-eclipse-temurin-" \o version
      [] language = "php" -> "php:" \o version \o "-cli"
      [] language = "rust" -> "rust:" \o version
      [] language = "ruby" -> "ruby:" \o version \o "-alpine"
      [] OTHER -> "alpine:latest"

-----------------------------------------------------------------------------
(* ProjectAnalyzer._detect_dependencies *)

\* line.strip(): the fields of a line without the empty ones at its two ends
strip(line) == DropTrailingBlank(DropLeadingBlank(line))

\* line.split('==')[0].split('>=')[0].split('~=')[0]
RequirementName(text) ==
    CASE text = "flask==2.0" -> "flask"
      [] text = "Django>=4.0" -> "Django"
      [] text = "python_requires>=3.9" -> "python_requires"
      [] OTHER -> text

\* re.findall(r'<artifactId>(.*?)</artifactId>', w)
ArtifactIds(w) ==
    CASE w = "<artifactId>spring-boot-starter</artifactId>" -> <<"spring-boot-starter">>
      [] w = "<artifactId>quarkus-core</artifactId>" -> <<"quarkus-core">>
      [] OTHER -> <<>>

\* w.replace('require', '')
WithoutRequire(w) == IF w = "require" THEN "" ELSE w

\* '(' in w
HasParen(w) == w \in {"(", "implementation(io.ktor:ktor-server-core)",
                      "id(org.springframework.boot)"}

\* line.startswith('#') for a stripped line
IsHashComment(line) == line # <<>> /\ line[1] = "#"

\* line.startswith('//') for a stripped line
IsSlashComment(line) == line # <<>> /\ line[1] = "//"

RECURSIVE python_dependencies(_, _)
python_dependencies(ls, i) ==
    IF i > Len(ls) THEN <<>>
    ELSE LET line == strip(ls[i])
         IN (IF line # <<>> /\ ~IsHashComment(line)
             THEN <<RequirementName(Render(line))>> ELSE <<>>)
            \o python_dependencies(ls, i + 1)

\* the keys of pkg.get('dependencies', {}), in document order, each once
RECURSIVE node_dependencies(_, _)
node_dependencies(members, i) ==
    IF i > Len(members) THEN <<>>
    ELSE (IF members[i].key = "dependencies"
             /\ \A j \in 1..(i - 1) :
                   ~(members[j].key = "dependencies" /\ members[j].sub = members[i].sub)
          THEN <<members[i].sub>> ELSE <<>>)
         \o node_dependencies(members, i + 1)

\* The loop over the lines of go.mod; deps is what was collected so far.
RECURSIVE go_dependencies(_, _, _, _)
go_dependencies(ls, i, in_require, deps) ==
    IF i > Len(ls) THEN Ok(deps)
    ELSE LET line == strip(ls[i])
             words == split(line)
         IN IF Len(line) >= 2 /\ line[1] = "require" /\ line[2] = "("
            THEN go_dependencies(ls, i + 1, TRUE, deps)
            ELSE IF in_require
            THEN IF line = <<")">> THEN Ok(deps)
                 ELSE IF line # <<>> /\ ~IsSlashComment(line)
                 THEN go_dependencies(ls, i + 1, TRUE, Append(deps, words[1]))
                 ELSE go_dependencies(ls, i + 1, TRUE, deps)
            ELSE IF Len(line) >= 2 /\ line[1] = "require"
                    /\ \A j \in 1..Len(line) : ~HasParen(line[j])
            THEN LET rest == split([j \in 1..Len(line) |-> WithoutRequire(line[j])])
                 IN IF rest = <<>> THEN Raise("IndexError")
                    ELSE go_dependencies(ls, i + 1, FALSE, Append(deps, rest[1]))
            ELSE go_dependencies(ls, i + 1, FALSE, deps)

RECURSIVE java_dependencies(_, _)
java_dependencies(words, i) ==
    IF i > Len(words) THEN <<>>
    ELSE ArtifactIds(words[i]) \o java_dependencies(words, i + 1)

\* seq[:n]
Prefix(seq, n) == SubSeq(seq, 1, IF Len(seq) < n THEN Len(seq) ELSE n)

detect_dependencies(d, language) ==
    CASE language = "python" ->
            IF "requirements.txt" \in DOMAIN d
            THEN IF ~d["requirements.txt"].readable THEN Raise("OSError")
                 ELSE Ok(Prefix(python_dependencies(d["requirements.txt"].lines, 1), 10))
            ELSE Ok(<<>>)
      [] language \in {"node", "typescript"} ->
            IF "package.json" \in DOMAIN d /\ d["package.json"].readable
            THEN LET pkg == json_load(d["package.json"].lines)
                 IN IF pkg.exc # NoError THEN Ok(<<>>)
                    ELSE Ok(Prefix(node_dependencies(pkg.val, 1), 10))
            ELSE Ok(<<>>)
      [] language = "go" ->
            IF "go.mod" \in DOMAIN d
            THEN IF ~d["go.mod"].readable THEN Raise("OSError")
                 ELSE LET r == go_dependencies(d["go.mod"].lines, 1, FALSE, <<>>)
                      IN IF r.exc # NoError THEN r ELSE Ok(Prefix(r.val, 10))
            ELSE Ok(<<>>)
      [] language \in {"java", "kotlin"} ->
            IF "pom.xml" \in DOMAIN d
            THEN IF ~d["pom.xml"].readable THEN Raise("OSError")
                 ELSE Ok(Prefix(Prefix(java_dependencies(Flatten(d["pom.xml"].lines), 1),
                                       20), 10))
            ELSE Ok(<<>>)
      [] OTHER -> Ok(<<>>)

-----------------------------------------------------------------------------
(* DockerfileParser *)

\* int(port_str.split('/')[0]); -1 stands for the ValueError that is caught
PortOf(w) ==
    CASE w \in {"8080", "8080/tcp"} -> 8080
      [] w = "3000" -> 3000
      [] OTHER -> -1

\* DockerfileParser.extract_base_images
RECURSIVE extract_base_images(_, _)
extract_base_images(ls, i) ==
    IF i > Len(ls) THEN <<>>
    ELSE LET line == strip(ls[i])
             rest == split(line)
         IN (IF line # <<>> /\ ~IsHashComment(line)
                /\ Len(line) >= 2 /\ line[1] = "FROM" /\ rest[2] # "scratch"
             THEN <<rest[2]>> ELSE <<>>)
            \o extract_base_images(ls, i + 1)

RECURSIVE ports_of(_, _)
ports_of(words, j) ==
    IF j > Len(words) THEN <<>>
    ELSE (IF PortOf(words[j]) >= 0 THEN <<PortOf(words[j])>> ELSE <<>>)
         \o ports_of(words, j + 1)

\* DockerfileParser.extract_exposed_ports
RECURSIVE extract_exposed_ports(_, _)
extract_exposed_ports(ls, i) ==
    IF i > Len(ls) THEN <<>>
    ELSE LET line == strip(ls[i])
         IN (IF Len(line) >= 2 /\ line[1] = "EXPOSE" THEN ports_of(split(line), 2) ELSE <<>>)
            \o extract_exposed_ports(ls, i + 1)

\* DockerfileParser.get_final_base_image
get_final_base_image(ls) ==
    LET images == extract_base_images(ls, 1)
    IN IF images = <<>> THEN Raise("ValueError: no FROM") ELSE Ok(images[Len(images)])

\* DockerfileParser.get_primary_port
get_primary_port(ls) ==
    LET ports == extract_exposed_ports(ls, 1) IN IF ports # <<>> THEN ports[1] ELSE 3000

\* DockerfileParser(path).get_summary(), as ProjectAnalyzer._parse_dockerfile
\* calls it on the project's Dockerfile
parse_dockerfile(d) ==
    IF "Dockerfile" \notin DOMAIN d THEN Raise("FileNotFoundError")
    ELSE IF ~d["Dockerfile"].readable THEN Raise("OSError")
    ELSE LET ls == d["Dockerfile"].lines
             final == get_final_base_image(ls)
         IN IF final.exc # NoError THEN final
            ELSE Ok([base_images |-> extract_base_images(ls, 1),
                     final_image |-> final.val,
                     is_multistage |-> Len(extract_base_images(ls, 1)) > 1,
                     ports |-> extract_exposed_ports(ls, 1),
                     primary_port |-> get_primary_port(ls)])

\* ProjectAnalyzer.DOCKERFILE_TEMPLATES rendered with the version: the FROM and
\* EXPOSE lines of the file that _generate_dockerfile writes (the other
\* instructions are read by no parser method that _analyze uses).
render_dockerfile(language, version) ==
    CASE language = "python" ->
            <<<<"FROM", "python:" \o version \o "-slim", "as", "builder">>,
              <<"FROM", "python:" \o version \o "-slim">>, <<"EXPOSE", "3000">>>>
      [] language = "go" ->
            <<<<"FROM", "golang:" \o version \o "-alpine", "AS", "builder">>,
              <<"FROM", "alpine:latest">>, <<"EXPOSE", "3000">>>>
      [] language \in {"node", "typescript"} ->
            <<<<"FROM", "node:" \o version \o "-alpine", "as", "builder">>,
              <<"FROM", "node:" \o version \o "-alpine">>, <<"EXPOSE", "3000">>>>
      [] language \in {"java", "kotlin"} ->
            <<<<"FROM", "maven:3.9-eclipse-temurin-" \o version, "as", "builder">>,
              <<"FROM", "eclipse-temurin:" \o version \o "-jre-alpine">>,
              <<"EXPOSE", "3000">>>>
      [] language = "php" ->
            <<<<"FROM", "php:" \o version \o "-fpm-alpine">>,
              <<"FROM", "php:" \o version \o "-fpm-alpine">>, <<"EXPOSE", "3000">>>>
      [] language = "rust" ->
            <<<<"FROM", "rust:" \o version, "as", "builder">>,
              <<"FROM", "debian:bookworm-slim">>, <<"EXPOSE", "3000">>>>
      [] language = "ruby" ->
            <<<<"FROM", "ruby:" \o version \o "-alpine">>, <<"EXPOSE", "3000">>>>
      [] OTHER -> <<<<"FROM", "alpine:latest">>, <<"EXPOSE", "3000">>>>

-----------------------------------------------------------------------------
(* docker-compose *)

COMPOSE_FILES == <<"docker-compose.yml", "docker-compose.yaml", "compose.yml", "compose.yaml">>

\* ProjectAnalyzer._check_docker_compose
check_docker_compose(d) == \E i \in 1..Len(COMPOSE_FILES) : COMPOSE_FILES[i] \in DOMAIN d

\* An entry of the services mapping, written "<service>.<key>=<value>"
YamlService(tok) ==
    CASE tok = "web.build=." -> [name |-> "web", key |-> "build", value |-> "."]
      [] tok = "worker.build=." -> [name |-> "worker", key |-> "build", value |-> "."]
      [] tok = "api.build=./api" -> [name |-> "api", key |-> "build", value |-> "./api"]
      [] tok = "db.image=postgres" -> [name |-> "db", key |-> "image", value |-> "postgres"]
      [] OTHER -> None

IsYamlService(tok) ==
    tok \in {"web.build=.", "worker.build=.", "api.build=./api", "db.image=postgres"}

\* yaml.safe_load(f). The document is empty (None), or a mapping whose words
\* are an optional "version:3", then optionally "services:" and its entries;
\* any other text is a YAML error.
yaml_safe_load(ls) ==
    LET toks == split(Flatten(ls))
        body == IF toks # <<>> /\ toks[1] = "version:3" THEN Tail(toks) ELSE toks
    IN IF toks = <<>> THEN Ok([kind |-> "null", services |-> "absent", entries |-> <<>>])
       ELSE IF body = <<>>
       THEN Ok([kind |-> "mapping", services |-> "absent", entries |-> <<>>])
       ELSE IF body[1] = "services:" /\ \A i \in 2..Len(body) : IsYamlService(body[i])
       THEN Ok([kind |-> "mapping",
                services |-> IF Len(body) = 1 THEN "null" ELSE "mapping",
                entries |-> [i \in 1..(Len(body) - 1) |-> YamlService(body[i + 1])]])
       ELSE Raise("YAMLError")

\* services = compose_data.get('services', {}): the entries, or the failure of
\* the attribute access that follows (None has neither .get nor .keys)
compose_services(doc) ==
    IF doc.exc # NoError THEN doc
    ELSE IF doc.val.kind = "null" \/ doc.val.services = "null" THEN Raise("AttributeError")
    ELSE Ok(doc.val.entries)

\* list(services.keys())
RECURSIVE service_names(_, _)
service_names(entries, i) ==
    IF i > Len(entries) THEN <<>>
    ELSE (IF \A j \in 1..(i - 1) : entries[j].name # entries[i].name
          THEN <<entries[i].name>> ELSE <<>>)
         \o service_names(entries, i + 1)

RECURSIVE first_compose_file(_, _)
first_compose_file(d, i) ==
    IF i > Len(COMPOSE_FILES) THEN None
    ELSE IF COMPOSE_FILES[i] \in DOMAIN d THEN COMPOSE_FILES[i]
    ELSE first_compose_file(d, i + 1)

ComposeInfo(filename, names, build, image) ==
    [filename |-> filename, services |-> names, service_count |-> Len(names),
     has_build |-> build, has_image |-> image, networks |-> <<>>, volumes |-> <<>>]

\* ProjectAnalyzer._parse_docker_compose: the first compose file that exists
\* decides; every failure on it gives the empty summary
parse_docker_compose(d) ==
    LET filename == first_compose_file(d, 1)
    IN IF filename = None THEN [filename |-> None]
       ELSE LET svc == IF d[filename].readable
                       THEN compose_services(yaml_safe_load(d[filename].lines))
                       ELSE Raise("OSError")
            IN IF svc.exc # NoError THEN ComposeInfo(filename, <<>>, FALSE, FALSE)
               ELSE ComposeInfo(filename, service_names(svc.val, 1),
                                \E i \in 1..Len(svc.val) : svc.val[i].key = "build",
                                \E i \in 1..Len(svc.val) : svc.val[i].key = "image")

\* os.path.join(project_path, build_path, 'Dockerfile') as an entry of the
\* project directory
BuildDockerfile(build_path) == IF build_path = "." THEN "Dockerfile" ELSE build_path \o "/Dockerfile"

RECURSIVE services_with_build(_, _, _)
services_with_build(d, entries, i) ==
    IF i > Len(entries) THEN <<>>
    ELSE (IF entries[i].key = "build" /\ BuildDockerfile(entries[i].value) \in DOMAIN d
          THEN <<[name |-> entries[i].name, path |-> entries[i].value,
                  dockerfile |-> BuildDockerfile(entries[i].value)]>>
          ELSE <<>>)
         \o services_with_build(d, entries, i + 1)

\* ProjectAnalyzer._extract_services_with_build: a compose file that fails is
\* skipped and the next one is tried
RECURSIVE extract_services_with_build(_, _)
extract_services_with_build(d, i) ==
    IF i > Len(COMPOSE_FILES) THEN <<>>
    ELSE IF COMPOSE_FILES[i] \in DOMAIN d
    THEN LET svc == IF d[COMPOSE_FILES[i]].readable
                    THEN compose_services(yaml_safe_load(d[COMPOSE_FILES[i]].lines))
                    ELSE Raise("OSError")
         IN IF svc.exc # NoError THEN extract_services_with_build(d, i + 1)
            ELSE services_with_build(d, svc.val, 1)
    ELSE extract_services_with_build(d, i + 1)

-----------------------------------------------------------------------------
(* EnvAnalyzer, as far as ProjectAnalyzer._analyze uses it *)

ENV_PATTERNS == <<".env", ".env.example", ".env.local", ".env.development",
                  ".env.production", ".env.test">>

\* EnvAnalyzer._analyze: the env files found, in the order of the patterns
RECURSIVE env_files(_, _)
env_files(d, i) ==
    IF i > Len(ENV_PATTERNS) THEN <<>>
    ELSE (IF ENV_PATTERNS[i] \in DOMAIN d THEN <<ENV_PATTERNS[i]>> ELSE <<>>)
         \o env_files(d, i + 1)

\* EnvAnalyzer(project_path).get_summary(); the project directories of this
\* model hold none of the env files, so env_vars stays empty
env_summary(d) ==
    [env_files |-> env_files(d, 1), total_vars |-> 0, sensitive_vars |-> 0,
     required_vars |-> 0]

-----------------------------------------------------------------------------
(* The project directories the analysis is run on *)

\* The lines a file of each name is made of
Vocab(name) ==
    CASE name = "requirements.txt" ->
            {<<"flask==2.0">>, <<"Django>=4.0">>, <<"python_requires>=3.9">>}
      [] name = "pyproject.toml" -> {<<"django>=4.2">>, <<"fastapi">>}
      [] name = "go.mod" ->
            {<<"module", "x">>, <<"go", "1.20">>, <<"go", "">>,
             <<"require", "github.com/gin-gonic/gin", "v1.9.1">>}
      [] name = "package.json" ->
            {<<"{", "}">>,
             <<"{", "engines.node:>=18", "dependencies.koa:^2", "}">>,
             <<"{", "engines.node:lts", "dependencies.express:^4.18",
               "devDependencies.@nestjs/core:^10", "}">>,
             <<"{", "dependencies.koa:^2", "devDependencies.react:^18", "}">>}
      [] name = "pom.xml" ->
            {<<"<source>17</source>">>, <<"<artifactId>spring-boot-starter</artifactId>">>,
             <<"<groupId>org.springframework</groupId>">>}
      [] name = "build.gradle" ->
            {<<"implementation", "io.quarkus:quarkus-core">>, <<"id", "org.springframework.boot">>}
      [] name = "build.gradle.kts" ->
            {<<"implementation(io.ktor:ktor-server-core)">>, <<"id(org.springframework.boot)">>}
      [] name = "composer.json" ->
            {<<"{", "}">>, <<"{", "require.php:^8.1", "}">>,
             <<"{", "require.php:>=7", "require.laravel/framework:^10", "}">>}
      [] name = "rust-toolchain" -> {<<"1.75.0">>, <<>>}
      [] name = ".ruby-version" -> {<<"3.3.0">>, <<>>}
      [] name = "Dockerfile" ->
            {<<"FROM", "python:3.11-slim">>, <<"FROM", "scratch">>, <<"EXPOSE", "8080">>,
             <<"FROM", "golang:1.21", "AS", "builder">>}
      [] name = "docker-compose.yml" ->
            {<<"services:", "web.build=.", "worker.build=.">>,
             <<"services:", "db.image=postgres", "api.build=./api">>,
             <<"services:">>, <<"version:3">>}
      [] OTHER -> {}

\* The sequences over S of length at most n
RECURSIVE SeqsUpTo(_, _)
SeqsUpTo(S, n) ==
    IF n = 0 THEN {<<>>}
    ELSE LET P == SeqsUpTo(S, n - 1) IN P \cup {Append(q, x) : q \in P, x \in S}

\* The states of a file of that name with at most n lines; a file the analysis
\* never opens has one state
Contents(name, n) ==
    IF Vocab(name) = {} THEN {File(<<>>)}
    ELSE {Unreadable} \cup {File(ls) : ls \in SeqsUpTo(Vocab(name), n)}

\* The sets of at most k of the names
RECURSIVE NameSets(_, _)
NameSets(names, k) ==
    IF k = 0 THEN {{}}
    ELSE LET P == NameSets(names, k - 1)
         IN P \cup {S \cup {nm} : S \in P, nm \in names}

\* The directories whose entries are the names S, a file of each name in one
\* of its states of at most n lines
RECURSIVE DirsOver(_, _)
DirsOver(S, n) ==
    IF S = {} THEN {EmptyDir}
    ELSE LET nm == CHOOSE x \in S : TRUE
         IN {d @@ (nm :> c) : d \in DirsOver(S \ {nm}, n), c \in Contents(nm, n)}


-----------------------------------------------------------------------------
(* ProjectAnalyzer.__init__ and _analyze, one action per numbered step *)

Set(key, value) == IF key \in DOMAIN data THEN [data EXCEPT ![key] = value]
                   ELSE data @@ (key :> value)

language == data["language_info"].language

Fail(exc) ==
    /\ raised' = exc
    /\ pc' = "raised"
    /\ UNCHANGED <<fs, docker_gen, data, arg, ret, tree, test_files, projects>>

\* A project directory of at most MaxEntries entries, each file empty, of one
\* line, or unreadable
Init ==
    /\ \E S \in NameSets(Names, MaxEntries) : fs \in DirsOver(S, 1)
    /\ docker_gen \in BOOLEAN
    /\ pc = "detect_language"
    /\ data = EmptyDir
    /\ raised = NoError
    /\ arg = None
    /\ ret = EmptyDir
    /\ tree = EmptyDir
    /\ test_files = <<>>
    /\ projects = <<>>

\* 1. language; an unknown language ends the analysis with ValueError
DetectLanguage ==
    /\ pc = "detect_language"
    /\ LET info == detect_language(fs)
       IN /\ data' = Set("language_info", info)
          /\ IF info.language = "unknown"
             THEN raised' = "ValueError: language" /\ pc' = "raised"
             ELSE raised' = raised /\ pc' = "detect_version"
    /\ UNCHANGED <<fs, docker_gen, arg, ret, tree, test_files, projects>>

\* 2. version
DetectVersion ==
    /\ pc = "detect_version"
    /\ LET r == detect_version(fs, language)
       IN IF r.exc # NoError THEN Fail(r.exc)
          ELSE /\ data' = Set("version", r.val)
               /\ pc' = "detect_framework"
               /\ UNCHANGED <<fs, docker_gen, raised, arg, ret, tree, test_files, projects>>

\* 3. framework
DetectFramework ==
    /\ pc = "detect_framework"
    /\ LET r == detect_framework(fs, language)
       IN IF r.exc # NoError THEN Fail(r.exc)
          ELSE /\ data' = Set("framework", r.val)
               /\ pc' = "detect_dependencies"
               /\ UNCHANGED <<fs, docker_gen, raised, arg, ret, tree, test_files, projects>>

\* 4. dependencies
DetectDependencies ==
    /\ pc = "detect_dependencies"
    /\ LET r == detect_dependencies(fs, language)
       IN IF r.exc # NoError THEN Fail(r.exc)
          ELSE /\ data' = Set("dependencies", r.val)
               /\ pc' = "check_docker"
               /\ UNCHANGED <<fs, docker_gen, raised, arg, ret, tree, test_files, projects>>

\* 5. and 6. Dockerfile and docker-compose presence, monorepo
CheckDocker ==
    /\ pc = "check_docker"
    /\ LET compose == check_docker_compose(fs)
           svcs == IF compose THEN extract_services_with_build(fs, 1) ELSE <<>>
           mono == Len(svcs) > 1
           found == ("dockerfile_exists" :> ("Dockerfile" \in DOMAIN fs))
                    @@ ("docker_compose_exists" :> compose)
                    @@ ("is_monorepo" :> mono)
                    @@ ("services" :> IF mono THEN svcs ELSE <<>>)
       IN data' = IF compose
                  THEN data @@ found @@ ("docker_compose_info" :> parse_docker_compose(fs))
                  ELSE data @@ found
    /\ pc' = "generate_dockerfile"
    /\ UNCHANGED <<fs, docker_gen, raised, arg, ret, tree, test_files, projects>>

\* Mutant: a missing Dockerfile is generated whatever docker_gen says.
GenerateDockerfile_always ==
    /\ pc = "generate_dockerfile"
    /\ IF ~data["dockerfile_exists"]
       THEN /\ fs' = fs @@ ("Dockerfile" :> File(render_dockerfile(language, data["version"])))
            /\ data' = Set("dockerfile_exists", TRUE)
       ELSE UNCHANGED <<fs, data>>
    /\ pc' = "base_image"
    /\ UNCHANGED <<docker_gen, raised, arg, ret, tree, test_files, projects>>

\* 7. a Dockerfile is written when there is none and docker_gen is set
GenerateDockerfile ==
    /\ pc = "generate_dockerfile"
    /\ IF ~data["dockerfile_exists"] /\ docker_gen
       THEN /\ fs' = fs @@ ("Dockerfile" :> File(render_dockerfile(language, data["version"])))
            /\ data' = Set("dockerfile_exists", TRUE)
       ELSE UNCHANGED <<fs, data>>
    /\ pc' = "base_image"
    /\ UNCHANGED <<docker_gen, raised, arg, ret, tree, test_files, projects>>

\* 8. base image: from the Dockerfile when there is one
BaseImage ==
    /\ pc = "base_image"
    /\ IF data["dockerfile_exists"]
       THEN LET r == parse_dockerfile(fs)
            IN IF r.exc # NoError THEN Fail(r.exc)
               ELSE /\ data' = data @@ ("dockerfile_info" :> r.val)
                                    @@ ("base_image" :> r.val.final_image)
                    /\ pc' = "detect_artifacts"
                    /\ UNCHANGED <<fs, docker_gen, raised, arg, ret, tree, test_files, projects>>
       ELSE /\ data' = data @@ ("dockerfile_info" :> None)
                            @@ ("base_image" :> get_build_image(language, data["version"]))
            /\ pc' = "detect_artifacts"
            /\ UNCHANGED <<fs, docker_gen, raised, arg, ret, tree, test_files, projects>>

\* 9. and 10. artifacts and environment variables; the constructor returns
DetectArtifacts ==
    /\ pc = "detect_artifacts"
    /\ data' = data @@ ("artifact_paths" :> detect_artifact_paths(language))
                    @@ ("env_summary" :> env_summary(fs))
    /\ pc' = "done"
    /\ UNCHANGED <<fs, docker_gen, raised, arg, ret, tree, test_files, projects>>

Next ==
    \/ DetectLanguage
    \/ DetectVersion
    \/ DetectFramework
    \/ DetectDependencies
    \/ CheckDocker
    \/ GenerateDockerfile
    \/ BaseImage
    \/ DetectArtifacts

Spec == Init /\ [][Next]_vars

-----------------------------------------------------------------------------
(* The resolvers called directly, each as a function of the directory and   *)
(* of its language argument                                                 *)

\* The languages a resolver is called with: the registry and two outside it
CallLanguages == Languages \cup {"unknown", "csharp"}

\* The files that _detect_version and _detect_framework open for a language
Inspected(l) ==
    CASE l = "python" -> {"requirements.txt", "pyproject.toml"}
      [] l = "go" -> {"go.mod"}
      [] l \in {"node", "typescript"} -> {"package.json"}
      [] l \in {"java", "kotlin"} -> {"pom.xml", "build.gradle", "build.gradle.kts"}
      [] l = "php" -> {"composer.json"}
      [] l = "rust" -> {"rust-toolchain"}
      [] l = "ruby" -> {".ruby-version"}
      [] OTHER -> {}

\* Any of the inspected files present, with at most MaxLines lines each
CallInit ==
    /\ arg \in CallLanguages
    /\ \E S \in SUBSET Inspected(arg) : fs \in DirsOver(S, MaxLines)
    /\ docker_gen = FALSE
    /\ pc = "call"
    /\ data = EmptyDir
    /\ raised = NoError
    /\ ret = EmptyDir
    /\ tree = EmptyDir
    /\ test_files = <<>>
    /\ projects = <<>>

CallDetectVersion ==
    /\ pc = "call"
    /\ "version" \notin DOMAIN ret
    /\ ret' = ret @@ ("version" :> detect_version(fs, arg))
    /\ UNCHANGED <<fs, docker_gen, pc, data, raised, arg, tree, test_files, projects>>

CallDetectFramework ==
    /\ pc = "call"
    /\ "framework" \notin DOMAIN ret
    /\ ret' = ret @@ ("framework" :> detect_framework(fs, arg))
    /\ UNCHANGED <<fs, docker_gen, pc, data, raised, arg, tree, test_files, projects>>

CallDetectArtifactPaths ==
    /\ pc = "call"
    /\ "artifact_paths" \notin DOMAIN ret
    /\ ret' = ret @@ ("artifact_paths" :> detect_artifact_paths(arg))
    /\ UNCHANGED <<fs, docker_gen, pc, data, raised, arg, tree, test_files, projects>>

CallNext ==
    \/ CallDetectVersion
    \/ CallDetectFramework
    \/ CallDetectArtifactPaths

SpecCalls == CallInit /\ [][CallNext]_vars

-----------------------------------------------------------------------------
(* Properties of language detection, stated on the directory itself *)

\* The state right after step 1 of _analyze: the directory is still the one
\* the constructor was given.
AfterDetect == pc = "detect_version" \/ raised = "ValueError: language"

info == data["language_info"]

\* name is matched by the glob pattern
Matches(name, pattern) == ~Hidden(name) /\ Ext(name) = StarSuffix(pattern)

HighPresent(l) == HighMarkers(l) \cap DOMAIN fs # {}

MediumPresent(l) == \E p \in MediumMarkers(l) : \E n \in DOMAIN fs : Matches(n, p)

\* The first language of the registry that satisfies P
FirstLanguage(P(_)) ==
    LANGUAGE_MARKERS[CHOOSE i \in 1..Len(LANGUAGE_MARKERS) :
                        /\ P(LANGUAGE_MARKERS[i].language)
                        /\ \A j \in 1..(i - 1) : ~P(LANGUAGE_MARKERS[j].language)].language

\* C1 (as stated): for every language L and every HIGH marker m of L, a
\* directory whose only entry is m is detected as L with confidence high.
C1_Original ==
    \A l \in Languages : \A m \in HighMarkers(l) :
        (AfterDetect /\ DOMAIN fs = {m}) =>
            (info.language = l /\ info.confidence = "high")

\* C1 (amended): a directory whose only entry is a HIGH marker m is detected
\* with confidence high and marker m as the first language of the registry
\* that lists m; that is L itself for every HIGH marker of L except pom.xml
\* and build.gradle of kotlin, which java lists first.
C1_HighMarkerAlone ==
    \A m \in AllHighMarkers :
        (AfterDetect /\ DOMAIN fs = {m}) =>
            LET Lists(l) == m \in HighMarkers(l)
            IN /\ info.confidence = "high"
               /\ info.marker = m
               /\ info.language = FirstLanguage(Lists)
               /\ \A l \in Languages :
                     (Lists(l) /\ ~(l = "kotlin" /\ m \in {"pom.xml", "build.gradle"}))
                        => info.language = l

C1_Witness ==
    /\ AfterDetect
    /\ DOMAIN fs = {"pom.xml"}
    /\ info.language = "java"

\* C2 (as stated): for every language L and every MEDIUM pattern p of L, a
\* directory that holds only a file matching p, no HIGH marker, is detected as
\* L with confidence medium.
C2_Original ==
    \A l \in Languages : \A p \in MediumMarkers(l) : \A n \in Names \ AllHighMarkers :
        (AfterDetect /\ DOMAIN fs = {n} /\ Matches(n, p)) =>
            (info.language = l /\ info.confidence = "medium")

\* C2 (amended): a directory that holds only a file matching a MEDIUM pattern,
\* no HIGH marker, is detected with confidence medium, with a pattern that
\* matches the file as marker, as the first language of the registry that has
\* such a pattern; that is L itself for every pattern of L except *.ts and
\* *.tsx of typescript, which node lists first.
C2_MediumMarkerAlone ==
    \A n \in Names \ AllHighMarkers :
        (AfterDetect /\ DOMAIN fs = {n} /\ \E l \in Languages : MediumPresent(l)) =>
            /\ info.confidence = "medium"
            /\ Matches(n, info.marker)
            /\ info.language = FirstLanguage(MediumPresent)
            /\ \A l \in Languages :
                  (MediumPresent(l) /\ l # "typescript") => info.language = l

C2_Witness ==
    /\ AfterDetect
    /\ DOMAIN fs = {"app.ts"}
    /\ info.language = "node"
    /\ info.confidence = "medium"

\* C3: confidence medium is returned only if no HIGH marker of any language is
\* present; when a HIGH marker is present the returned language is one with a
\* HIGH marker present and the confidence is high.
C3_MediumOnlyWithoutHigh ==
    AfterDetect =>
        /\ info.confidence = "medium" => DOMAIN fs \cap AllHighMarkers = {}
        /\ DOMAIN fs \cap AllHighMarkers # {} =>
              (info.confidence = "high" /\ HighMarkers(info.language) \cap DOMAIN fs # {})

\* A source file of an earlier language beside the manifest of a later one.
C3_Witness ==
    /\ AfterDetect
    /\ DOMAIN fs = {"main.py", "go.mod"}
    /\ info.language = "go"
    /\ info.confidence = "high"

TierOf(l) == IF HighPresent(l) THEN "high" ELSE IF MediumPresent(l) THEN "medium" ELSE "none"

Rank(tier) == CASE tier = "high" -> 2 [] tier = "medium" -> 1 [] OTHER -> 0

IsTop(l) == Rank(TierOf(l)) > 0 /\ \A k \in Languages : Rank(TierOf(k)) <= Rank(TierOf(l))

\* The first marker of the sequence that is present
FirstPresent(markers) ==
    markers[CHOOSE i \in 1..Len(markers) :
               /\ (markers[i] \in DOMAIN fs \/ \E n \in DOMAIN fs : Matches(n, markers[i]))
               /\ \A j \in 1..(i - 1) :
                     ~(markers[j] \in DOMAIN fs \/ \E n \in DOMAIN fs : Matches(n, markers[j]))]

\* C4: among the languages detected at the highest tier the first in registry
\* order is returned, with that tier and with the first of its markers of that
\* tier that is present; the result is fixed by the directory content.
C4_RegistryOrderTieBreak ==
    (AfterDetect /\ \E l \in Languages : IsTop(l)) =>
        LET w == FirstLanguage(IsTop)
            m == LANGUAGE_MARKERS[RegistryIndex(w)]
        IN /\ info.language = w
           /\ info.confidence = TierOf(w)
           /\ info.marker = FirstPresent(IF TierOf(w) = "high" THEN m.high ELSE m.medium)

\* Two languages at the highest tier.
C4_Witness ==
    /\ AfterDetect
    /\ Cardinality({l \in Languages : IsTop(l)}) >= 2
    /\ {"go.mod", "package.json"} \subseteq DOMAIN fs
    /\ info.language = "go"

NoMarker == \A l \in Languages : ~HighPresent(l) /\ ~MediumPresent(l)

\* C5: when no marker of any language matches, _detect_language returns
\* language unknown, marker None, confidence none, and the constructor raises
\* the language error with no later step run: no version, framework,
\* dependencies, Dockerfile, base image or artifact entry is set.
C5_UnknownLanguageIsFatal ==
    (pc # "detect_language" /\ NoMarker) =>
        /\ pc = "raised"
        /\ raised = "ValueError: language"
        /\ info = [language |-> "unknown", marker |-> None, confidence |-> "none"]
        /\ DOMAIN data = {"language_info"}

\* The empty directory, and one that holds only files that are no markers.
C5_Witness ==
    /\ pc = "raised"
    /\ raised = "ValueError: language"
    /\ DOMAIN fs \subseteq {"README.md", ".conf.py"}

-----------------------------------------------------------------------------
(* Properties of the whole analysis *)

SummaryKeys == {"language_info", "version", "framework", "dependencies",
                "dockerfile_exists", "dockerfile_info", "docker_compose_exists",
                "is_monorepo", "services", "base_image", "artifact_paths"}

\* C6: constructing ProjectAnalyzer either completes with a full summary
\* record or raises the language-undetectable error; no other error escapes.
C6_OnlyLanguageErrorEscapes ==
    /\ raised \in {NoError, "ValueError: language"}
    /\ pc = "done" => SummaryKeys \subseteq DOMAIN data

-----------------------------------------------------------------------------
(* Properties of the resolvers, checked on direct calls *)

\* The file the version resolver of a language reads
VersionFile(l) ==
    CASE l = "python" -> "requirements.txt"
      [] l = "go" -> "go.mod"
      [] l \in {"node", "typescript"} -> "package.json"
      [] l \in {"java", "kotlin"} -> "pom.xml"
      [] l = "php" -> "composer.json"
      [] l = "rust" -> "rust-toolchain"
      [] l = "ruby" -> ".ruby-version"

DefaultVersion(l) ==
    CASE l = "python" -> "3.11"
      [] l = "go" -> "1.21"
      [] l \in {"node", "typescript"} -> "20"
      [] l \in {"java", "kotlin"} -> "17"
      [] l = "php" -> "8.2"
      [] l = "rust" -> "latest"
      [] l = "ruby" -> "3.2"

\* C7: for a registered language whose version file is absent _detect_version
\* returns the language's fixed default; for a language outside the registry
\* it returns "latest".
C7_DefaultVersionWhenAbsent ==
    "version" \in DOMAIN ret =>
        /\ (arg \in Languages /\ VersionFile(arg) \notin DOMAIN fs) =>
              ret["version"] = Ok(DefaultVersion(arg))
        /\ arg \notin Languages => ret["version"] = Ok("latest")

\* The version file is absent while another manifest of the language is there.
C7_Witness ==
    /\ "version" \in DOMAIN ret
    /\ arg = "kotlin"
    /\ DOMAIN fs = {"build.gradle.kts"}
    /\ ret["version"] = Ok("17")

\* C8: _detect_version never raises, whatever the state of the file it reads,
\* and never returns an empty string in place of the default.
C8_VersionNeverRaises ==
    "version" \in DOMAIN ret =>
        (ret["version"].exc = NoError /\ ret["version"].val # "")

\* The manifests _detect_framework scans for a language, in scan order
ScanFiles(l) ==
    CASE l = "python" -> <<"requirements.txt", "pyproject.toml">>
      [] l = "go" -> <<"go.mod">>
      [] l \in {"node", "typescript"} -> <<"package.json">>
      [] l \in {"java", "kotlin"} -> <<"pom.xml", "build.gradle", "build.gradle.kts">>
      [] OTHER -> <<>>

WordsOf(file) == {Flatten(fs[file].lines)[i] : i \in 1..Len(Flatten(fs[file].lines))}

\* An identifier of the k-th framework of the table of l is present in file
NamesFramework(l, file, k) ==
    /\ file \in DOMAIN fs
    /\ fs[file].readable
    /\ \E j \in 1..Len(FRAMEWORK_DETECTION(l)[k].markers) :
          LET marker == FRAMEWORK_DETECTION(l)[k].markers[j]
          IN CASE l = "python" ->
                    \E w \in WordsOf(file) : Lower(marker) \in Substrings(Lower(w))
               [] l \in {"node", "typescript"} ->
                    /\ json_load(fs[file].lines).exc = NoError
                    /\ marker \in dependency_keys(json_load(fs[file].lines).val)
               [] OTHER -> \E w \in WordsOf(file) : marker \in Substrings(w)

\* The framework of the least table index in K, None when K is empty
Earliest(l, K) ==
    IF K = {} THEN None
    ELSE FRAMEWORK_DETECTION(l)[CHOOSE k \in K : \A k2 \in K : k <= k2].framework

TableIndexes(l) == 1..Len(FRAMEWORK_DETECTION(l))

FileIndexes(l) == 1..Len(ScanFiles(l))

\* C9 (as stated): _detect_framework returns the framework earliest in table
\* order among all frameworks with an identifier present in any scanned
\* manifest, None when there is none.
C9_Original ==
    ("framework" \in DOMAIN ret /\ HasFrameworkTable(arg)
        /\ ret["framework"].exc = NoError) =>
        ret["framework"].val =
            Earliest(arg, {k \in TableIndexes(arg) :
                              \E f \in FileIndexes(arg) : NamesFramework(arg, ScanFiles(arg)[f], k)})

\* C9 (amended): the manifests are scanned in a fixed order (requirements.txt
\* then pyproject.toml; pom.xml, build.gradle, build.gradle.kts) and the first
\* manifest that holds an identifier of any framework decides: the result is
\* the framework earliest in table order among those with an identifier in
\* that manifest, and None when no manifest holds an identifier.
C9_FirstManifestThenTableOrder ==
    ("framework" \in DOMAIN ret /\ HasFrameworkTable(arg)
        /\ ret["framework"].exc = NoError) =>
        LET Holds(f) == \E k \in TableIndexes(arg) : NamesFramework(arg, ScanFiles(arg)[f], k)
            F == {f \in FileIndexes(arg) : Holds(f)}
        IN IF F = {} THEN ret["framework"].val = None
           ELSE LET first == CHOOSE f \in F : \A g \in F : f <= g
                IN ret["framework"].val =
                      Earliest(arg, {k \in TableIndexes(arg) :
                                        NamesFramework(arg, ScanFiles(arg)[first], k)})

\* requirements.txt names Flask and Django, so Django is returned; and
\* pyproject.toml is not looked at.
C9_Witness ==
    /\ "framework" \in DOMAIN ret
    /\ arg = "python"
    /\ "requirements.txt" \in DOMAIN fs
    /\ fs["requirements.txt"] = File(<<<<"flask==2.0">>, <<"Django>=4.0">>>>)
    /\ ret["framework"] = Ok("Django")

ArtifactKinds == {"wheel", "binary", "npm", "jar", "composer", "gem", "unknown"}

\* C10 (as stated): _detect_artifact_paths returns a kind of the enumeration
\* for every registered language, and for any other language the fallback
\* with build command 'echo no build command', path '*', kind 'unknown'.
C10_Original ==
    "artifact_paths" \in DOMAIN ret =>
        LET a == ret["artifact_paths"]
        IN /\ arg \in Languages => a.artifact_type \in ArtifactKinds
           /\ arg \notin Languages =>
                 /\ a.build_command = "echo no build command"
                 /\ a.artifact_path = "*"
                 /\ a.artifact_type = "unknown"

\* C10 (amended): the same, the build command of the fallback being
\* echo "No build command".
C10_ArtifactPathsTotal ==
    "artifact_paths" \in DOMAIN ret =>
        LET a == ret["artifact_paths"]
        IN /\ arg \in Languages => a.artifact_type \in ArtifactKinds
           /\ arg \notin Languages =>
                 /\ a.build_command = "echo \"No build command\""
                 /\ a.artifact_path = "*"
                 /\ a.artifact_type = "unknown"

C10_Witness ==
    /\ "artifact_paths" \in DOMAIN ret
    /\ arg = "csharp"
    /\ ret["artifact_paths"].artifact_type = "unknown"
    /\ ret["artifact_paths"].build_command = "echo \"No build command\""

-----------------------------------------------------------------------------
(* TestFramework (src/src/test_analyzer.py)                                 *)
(*                                                                          *)
(* tree maps a path below base_path, a sequence of names, to an entry       *)
(* [is_dir, text]; the directories above an entry exist with it.  The text  *)
(* of a file is one string of a small vocabulary; what occurs in it is      *)
(* given by the table Occurring.                                            *)

Dir == [is_dir |-> TRUE, text |-> ""]

Text(t) == [is_dir |-> FALSE, text |-> t]

\* The content of a file that exists but whose read_text()/open() raises
NoRead == "<unreadable>"

IsPrefix(p, q) == Len(p) <= Len(q) /\ SubSeq(q, 1, Len(p)) = p

\* The paths of a tree below the directory at path `root`, relative to it
Below(t, root) ==
    {SubSeq(q, Len(root) + 1, Len(q)) : q \in {x \in DOMAIN t : IsPrefix(root, x) /\ x # root}}

\* Path.exists(): an entry, or a directory above one
exists(t, p) == \E q \in DOMAIN t : IsPrefix(p, q)

\* Path.is_dir()
is_dir(t, p) == \/ p \in DOMAIN t /\ t[p].is_dir
                \/ \E q \in DOMAIN t : IsPrefix(p, q) /\ q # p

\* Path.is_file()
is_file(t, p) == p \in DOMAIN t /\ ~t[p].is_dir

\* Path.suffix of a file name
suffix(name) ==
    CASE name \in {"test_foo.py", "test_bar.py", "test_dir.py", "main.py", "lib.py",
                   "setup.py"} -> ".py"
      [] name \in {"a.js", "b.js", "app.spec.js", "app.test.js", "jest.config.js"} -> ".js"
      [] name \in {"b.spec.ts"} -> ".ts"
      [] name \in {"FooTest.java", "BarTests.java"} -> ".java"
      [] name \in {"foo_test.go", "main.go"} -> ".go"
      [] name \in {"foo_test.cpp", "x.cpp"} -> ".cpp"
      [] name = "x.cc" -> ".cc"
      [] name \in {"FooTest.cs"} -> ".cs"
      [] name \in {"FooTest.php"} -> ".php"
      [] name \in {"foo_spec.rb", "x.rb"} -> ".rb"
      [] name \in {"App.csproj", "Lib.csproj", "dummy.csproj"} -> ".csproj"
      [] name \in {"requirements.txt", "CMakeLists.txt"} -> ".txt"
      [] name \in {"package.json", "composer.json", ".mocharc.json"} -> ".json"
      [] name \in {"pyproject.toml", "Cargo.toml"} -> ".toml"
      [] name = "pytest.ini" -> ".ini"
      [] name = "pom.xml" -> ".xml"
      [] name = "build.gradle" -> ".gradle"
      [] name = "go.mod" -> ".mod"
      [] name = "README.md" -> ".md"
      [] OTHER -> ""      \* Gemfile, LICENSE, .rspec, .gitignore, src, test, ...

\* The text after the star of a pattern component "*<suffix>"
pattern_suffix(pat) ==
    CASE pat = "*.py" -> ".py" [] pat = "*.js" -> ".js" [] pat = "*.ts" -> ".ts"
      [] pat = "*.cpp" -> ".cpp" [] pat = "*.cs" -> ".cs" [] pat = "*.php" -> ".php"
      [] pat = "*.rb" -> ".rb" [] pat = "*.csproj" -> ".csproj"

\* fnmatch of one path component against one pattern component
fnmatch(name, pat) ==
    CASE pat = "test_*.py" -> name \in {"test_foo.py", "test_bar.py", "test_dir.py"}
      [] pat = "*_test.py" -> FALSE
      [] pat = "*.test.js" -> name = "app.test.js"
      [] pat = "*.test.ts" -> FALSE
      [] pat = "*.spec.js" -> name = "app.spec.js"
      [] pat = "*.spec.ts" -> name = "b.spec.ts"
      [] pat = "*Test.java" -> name = "FooTest.java"
      [] pat = "*Tests.java" -> name = "BarTests.java"
      [] pat = "*_test.go" -> name = "foo_test.go"
      [] pat = "*_test.cpp" -> name = "foo_test.cpp"
      [] pat = "*Test.cs" -> name = "FooTest.cs"
      [] pat = "*Test.php" -> name = "FooTest.php"
      [] pat = "*_spec.rb" -> name = "foo_spec.rb"
      [] pat \in {"*.py", "*.js", "*.ts", "*.cpp", "*.cs", "*.php", "*.rb", "*.csproj"} ->
            suffix(name) = pattern_suffix(pat)
      [] pat = "*.*" -> suffix(name) # "" \/ name \in {".rspec", ".gitignore"}
      [] OTHER -> name = pat

\* pathlib rejects a pattern component that holds "**" beside other text
\* (ValueError: '**' can only be an entire path component)
valid_pattern(pattern) == \A i \in 1..Len(pattern) : pattern[i] # "*.py**"

\* A relative path against a pattern; "**" stands for any run of directories
RECURSIVE path_match(_, _)
path_match(pattern, path) ==
    IF pattern = <<>> THEN path = <<>>
    ELSE IF Head(pattern) = "**"
         THEN \/ path_match(Tail(pattern), path)
              \/ Len(path) > 1 /\ path_match(pattern, Tail(path))
         ELSE /\ path # <<>>
              /\ fnmatch(Head(path), Head(pattern))
              /\ path_match(Tail(pattern), Tail(path))

\* The project roots below base_path that the operations are called with
P == <<"p">>

Q == <<"q">>

\* The paths of a project of one language family, relative to its root
FamilyPaths(family) ==
    CASE family = "python" ->
            {<<"test_foo.py">>, <<"tests", "test_bar.py">>, <<"test_dir.py">>,
             <<"requirements.txt">>, <<"pytest.ini">>, <<"main.py">>}
      [] family = "js" ->
            {<<"test", "a.js">>, <<"app.test.js">>, <<"b.spec.ts">>,
             <<"package.json">>, <<"jest.config.js">>, <<"cypress">>}
      [] family = "java" ->
            {<<"FooTest.java">>, <<"src", "test", "java", "BarTests.java">>,
             <<"pom.xml">>, <<"build.gradle">>}
      [] family = "go" -> {<<"foo_test.go">>, <<"main.go">>, <<"go.mod">>}
      [] family = "cpp" ->
            {<<"foo_test.cpp">>, <<"test", "x.cpp">>, <<"x.cc">>, <<"CMakeLists.txt">>}
      [] family = "csharp" -> {<<"FooTest.cs">>, <<"App.csproj">>, <<"sub", "App.csproj">>}
      [] family = "php" -> {<<"FooTest.php">>, <<"composer.json">>}
      [] family = "ruby" ->
            {<<"foo_spec.rb">>, <<"test", "x.rb">>, <<"Gemfile">>, <<".rspec">>, <<"spec">>}
      [] family = "mixed" ->
            {<<"lib.py">>, <<"test_foo.py">>, <<"a.js">>, <<"sub", "b.js">>,
             <<"foo_test.go">>, <<"README.md">>}

Families == {"python", "js", "java", "go", "cpp", "csharp", "php", "ruby", "mixed"}

\* test_patterns of discover_test_files, each split at "/".  The fifth is what
\* the adjacent literals "tests/**/*.py" "**/*.test.js" of the source make:
\* the source has no comma between them.
test_patterns == <<
    <<"**", "test_*.py">>, <<"**", "*_test.py">>, <<"**", "test", "**", "*.py">>,
    <<"**", "tests", "**", "*.py">>, <<"tests", "**", "*.py**", "*.test.js">>,
    <<"**", "*.test.ts">>, <<"**", "*.spec.js">>, <<"**", "*.spec.ts">>,
    <<"**", "test", "**", "*.js">>, <<"**", "test", "**", "*.ts">>,
    <<"**", "cypress", "**", "*.js">>, <<"**", "cypress", "**", "*.ts">>,
    <<"**", "src", "test", "java", "**", "*Test.java">>,
    <<"**", "src", "test", "java", "**", "*Tests.java">>,
    <<"**", "test", "java", "**", "*Test.java">>,
    <<"**", "test", "java", "**", "*Tests.java">>,
    <<"**", "test", "**", "*Test.java">>, <<"**", "test", "**", "*Tests.java">>,
    <<"**", "*Test.java">>, <<"**", "*Tests.java">>,
    <<"**", "*_test.go">>,
    <<"**", "*_test.cpp">>, <<"**", "test", "**", "*.cpp">>,
    <<"**", "*Test.cs">>, <<"**", "test", "**", "*.cs">>,
    <<"**", "*Test.php">>, <<"**", "test", "**", "*.php">>,
    <<"**", "*_spec.rb">>, <<"**", "test", "**", "*.rb">> >>

\* The patterns that a path of the vocabulary matches, by their indexes in
\* test_patterns, worked out once for all trees; a pattern that glob rejects
\* matches nothing, its ValueError is swallowed
pattern_hits ==
    [p \in UNION {FamilyPaths(family) : family \in Families} |->
        {i \in 1..Len(test_patterns) :
            valid_pattern(test_patterns[i]) /\ path_match(test_patterns[i], p)}]

\* list(search_path.glob(test_patterns[i])), `below` being the paths below
\* search_path
found_files(below, root, i) == {root \o p : p \in {q \in below : i \in pattern_hits[q]}}

\* The sequences that list each element of S once
RECURSIVE Orderings(_)
Orderings(S) ==
    IF S = {} THEN {<<>>}
    ELSE UNION {{<<x>> \o s : s \in Orderings(S \ {x})} : x \in S}

\* One listing of a set: the order in which glob yields is lost in the set
\* that discover_test_files builds from the list.
SeqOf(S) == CHOOSE s \in Orderings(S) : TRUE

\* test_files after the loop over the patterns: every hit of every pattern,
\* pattern after pattern (`todo` holds the indexes of the patterns still to
\* come that match some path; the others add nothing)
RECURSIVE extended(_, _, _)
extended(below, root, todo) ==
    IF todo = {} THEN <<>>
    ELSE LET i == CHOOSE k \in todo : \A m \in todo : k <= m
         IN SeqOf(found_files(below, root, i)) \o extended(below, root, todo \ {i})

\* Mutant: the hits are filtered but not made unique.
list_set_dup(t, hits) ==
    {SelectSeq(hits, LAMBDA f : is_file(t, f))}

\* list({f for f in test_files if f.is_file()}): the regular files among the
\* hits, each once, in the iteration order of a set of paths (any order: the
\* hash of a path is the hash of a string, seeded per process)
list_set(t, hits) ==
    Orderings({hits[i] : i \in {k \in 1..Len(hits) : is_file(t, hits[k])}})

\* The lists discover_test_files can return (and store in self.test_files)
discover_test_files(t, root) ==
    LET below == Below(t, root)
    IN list_set(t, extended(below, root, UNION {pattern_hits[q] : q \in below}))

-----------------------------------------------------------------------------
(* File contents: str.lower() and the `in` operator on the texts of the     *)
(* vocabulary                                                               *)

\* content.lower()
lower(text) ==
    CASE text = "Django" -> "django"
      [] text = "from fastapi import FastAPI" -> "from fastapi import fastapi"
      [] text = "<PackageReference Include=\"NUnit\" />" -> "<packagereference include=\"nunit\" />"
      [] text = "import org.junit.Test; @Test" -> "import org.junit.test; @test"
      [] text = "<artifactId>testng</artifactId>" -> "<artifactid>testng</artifactid>"
      [] text = "<artifactId>junit</artifactId>" -> "<artifactid>junit</artifactid>"
      [] text = "testImplementation 'org.spockframework:spock-core'" ->
            "testimplementation 'org.spockframework:spock-core'"
      [] text = "<PackageReference Include=\"xunit\" />" -> "<packagereference include=\"xunit\" />"
      [] text = "{\"devDependencies\": {\"jest\": \"^29\"}}" ->
            "{\"devdependencies\": {\"jest\": \"^29\"}}"
      [] text = "{\"dependencies\": {\"jest\": \"^29\"}, \"devDependencies\": {\"cypress\": \"^13\"}}" ->
            "{\"dependencies\": {\"jest\": \"^29\"}, \"devdependencies\": {\"cypress\": \"^13\"}}"
      [] text = "RSpec.describe Foo" -> "rspec.describe foo"
      [] text = "class FooTest < Minitest::Test" -> "class footest < minitest::test"
      [] text = "find_package(GTest)" -> "find_package(gtest)"
      [] text = "TEST_F(Foo, Bar)" -> "test_f(foo, bar)"
      [] text = "[Fact]" -> "[fact]"
      [] text = "use PHPUnit\\Framework\\TestCase;" -> "use phpunit\\framework\\testcase;"
      [] OTHER -> text

\* The strings the classifier looks for that occur in a text
Occurring(text) ==
    CASE text = "import pytest" -> {"import pytest", "pytest"}
      [] text = "import unittest" -> {"import unittest"}
      [] text = "pytest==7.0" -> {"pytest"}
      [] text = "django" -> {"django"}
      [] text = "from fastapi import FastAPI" -> {"fastapi", "from fastapi"}
      [] text = "from fastapi import fastapi" -> {"fastapi", "from fastapi"}
      [] text = "[tool.pytest.ini_options]" -> {"pytest", "[tool.pytest.ini_options]"}
      [] text \in {"<artifactId>testng</artifactId>", "<artifactid>testng</artifactid>"} ->
            {"testng"}
      [] text \in {"<artifactId>junit</artifactId>", "<artifactid>junit</artifactid>"} ->
            {"junit"}
      [] text \in {"testImplementation 'org.spockframework:spock-core'",
                   "testimplementation 'org.spockframework:spock-core'"} -> {"spock"}
      [] text = "import org.junit.Test; @Test" -> {"@Test", "org.junit", "junit"}
      [] text = "import org.junit.test; @test" -> {"org.junit", "junit"}
      [] text = "require gopkg.in/check.v1 v1.0.0" -> {"gopkg.in/check.v1"}
      [] text = "require github.com/stretchr/testify v1.8.0" -> {"github.com/stretchr/testify"}
      [] text = "import \"github.com/stretchr/testify/assert\"" -> {"github.com/stretchr/testify"}
      [] text = "find_package(GTest)" -> {"GTest"}
      [] text = "find_package(gtest)" -> {"gtest"}
      [] text = "find_package(catch2)" -> {"catch2"}
      [] text = "#include <catch2/catch.hpp>" -> {"#include <catch2/catch.hpp>", "catch2"}
      [] text = "TEST_F(Foo, Bar)" -> {"TEST_F"}
      [] text \in {"<PackageReference Include=\"xunit\" />",
                   "<packagereference include=\"xunit\" />"} -> {"xunit"}
      [] text = "<packagereference include=\"nunit\" />" -> {"nunit"}
      [] text = "[Fact]" -> {"[Fact]"}
      [] text = "use PHPUnit\\Framework\\TestCase;" ->
            {"PHPUnit\\Framework\\TestCase", "use PHPUnit\\Framework\\TestCase"}
      [] text = "gem 'rspec'" -> {"rspec"}
      [] text = "gem 'minitest'" -> {"minitest"}
      [] text = "RSpec.describe Foo" -> {"describe", "RSpec"}
      [] text = "rspec.describe foo" -> {"describe", "rspec"}
      [] text = "class FooTest < Minitest::Test" -> {"Minitest::Test"}
      [] text = "class footest < minitest::test" -> {"minitest"}
      [] OTHER -> {}

\* x in content
In(x, content) == x \in Occurring(content)

\* any(x in content for x in xs)
AnyIn(xs, content) == xs \cap Occurring(content) # {}

\* read_text(encoding='utf-8', errors='ignore') / open(): the text of a file,
\* an error for a file that cannot be read and for a directory
read_text(t, p) ==
    IF is_file(t, p) /\ t[p].text # NoRead THEN Ok(t[p].text) ELSE Raise("OSError")

\* json.load: the keys of each section of the document; JSONDecodeError for a
\* text that is no JSON document
json_document(text) ==
    CASE text = "{}" -> Ok([section \in {} |-> {}])
      [] text = "{\"devDependencies\": {\"jest\": \"^29\"}}" -> Ok("devDependencies" :> {"jest"})
      [] text = "{\"dependencies\": {\"mocha\": \"^10\"}}" -> Ok("dependencies" :> {"mocha"})
      [] text = "{\"dependencies\": {\"jest\": \"^29\"}, \"devDependencies\": {\"cypress\": \"^13\"}}" ->
            Ok(("dependencies" :> {"jest"}) @@ ("devDependencies" :> {"cypress"}))
      [] text = "{\"require-dev\": {\"phpunit/phpunit\": \"^10\"}}" ->
            Ok("require-dev" :> {"phpunit/phpunit"})
      [] OTHER -> Raise("JSONDecodeError")

\* {**data.get(a, {}), **data.get(b, {})}: the keys of the merged sections
merged_keys(doc, a, b) ==
    (IF a \in DOMAIN doc THEN doc[a] ELSE {}) \cup (IF b \in DOMAIN doc THEN doc[b] ELSE {})

-----------------------------------------------------------------------------
(* _detect_project_language *)

path_parent(p) == SubSeq(p, 1, Len(p) - 1)

path_name(p) == p[Len(p)]

\* The orders in which search_path.rglob("*.*") can yield the files below
\* root: the entries of a directory come in the order of os.scandir, which
\* is the file system's, and before those of the directories below it.
rglob_orders(t, root) ==
    LET files == {p \in DOMAIN t : /\ IsPrefix(root, p) /\ p # root
                                   /\ is_file(t, p) /\ fnmatch(path_name(p), "*.*")}
    IN {o \in Orderings(files) :
            \A i, j \in 1..Len(o) :
                (i < j) => ~(path_parent(o[j]) # path_parent(o[i]) /\ IsPrefix(path_parent(o[j]), path_parent(o[i])))}

\* file_extensions[ext] = file_extensions.get(ext, 0) + 1 on a dict kept as
\* the sequence of its items in insertion order
count_ext(items, ext) ==
    IF \E i \in 1..Len(items) : items[i].ext = ext
    THEN [i \in 1..Len(items) |->
            IF items[i].ext = ext THEN [items[i] EXCEPT !.count = @ + 1] ELSE items[i]]
    ELSE Append(items, [ext |-> ext, count |-> 1])

RECURSIVE file_extensions(_, _, _)
file_extensions(order, i, items) ==
    IF i > Len(order) THEN items
    ELSE file_extensions(order, i + 1,
            IF suffix(path_name(order[i])) # "" THEN count_ext(items, suffix(path_name(order[i])))
            ELSE items)

\* One step of sorted(..., key=count, reverse=True): the item goes behind
\* every item whose count is not smaller (the sort is stable)
RECURSIVE insert_by_count(_, _)
insert_by_count(sorted, item) ==
    IF sorted = <<>> THEN <<item>>
    ELSE IF Head(sorted).count >= item.count
         THEN <<Head(sorted)>> \o insert_by_count(Tail(sorted), item)
         ELSE <<item>> \o sorted

RECURSIVE sorted_by_count(_, _, _)
sorted_by_count(items, i, sorted) ==
    IF i > Len(items) THEN sorted
    ELSE sorted_by_count(items, i + 1, insert_by_count(sorted, items[i]))

lang_patterns(ext) ==
    CASE ext = ".py" -> "Python"
      [] ext = ".js" -> "JavaScript"
      [] ext = ".ts" -> "TypeScript"
      [] ext = ".java" -> "Java"
      [] ext = ".go" -> "Go"
      [] ext \in {".cpp", ".cc", ".cxx"} -> "C++"
      [] ext = ".cs" -> "C#"
      [] ext = ".php" -> "PHP"
      [] ext = ".rb" -> "Ruby"
      [] OTHER -> "Unknown"

\* for ext, count in sorted(...): if ext in lang_patterns: return ...
RECURSIVE first_known(_, _)
first_known(items, i) ==
    LET sorted == sorted_by_count(items, 1, <<>>)
    IN IF i > Len(sorted) THEN "Unknown"
       ELSE IF lang_patterns(sorted[i].ext) # "Unknown" THEN lang_patterns(sorted[i].ext)
       ELSE first_known(items, i + 1)

\* _detect_project_language for one traversal order
detect_project_language(order) == first_known(file_extensions(order, 1, <<>>), 1)

-----------------------------------------------------------------------------
(* The cascades: one per language, each returns a TestType (by its name)    *)

\* The checks of one manifest of _detect_python_test_framework
python_config(content) ==
    IF AnyIn({"pytest", "pytest-"}, content) THEN "PYTEST"
    ELSE IF In("nose", content) THEN "NOSE"
    ELSE IF In("fastapi", content) THEN "FASTAPI"
    ELSE IF In("django", content) THEN "DJANGO"
    ELSE IF In("flask", content) THEN "FLASK"
    ELSE IF In("starlette", content) THEN "STARLETTE"
    ELSE None

\* for config_file in config_files: ... (an error of the read is swallowed)
RECURSIVE python_config_files(_, _, _, _)
python_config_files(t, root, files, i) ==
    IF i > Len(files) THEN None
    ELSE LET r == read_text(t, root \o <<files[i]>>)
             found == IF exists(t, root \o <<files[i]>>) /\ r.exc = NoError
                      THEN python_config(lower(r.val)) ELSE None
         IN IF found # None THEN found ELSE python_config_files(t, root, files, i + 1)

\* for main_file in [main.py, app.py, application.py]: ...
RECURSIVE python_main_files(_, _, _, _)
python_main_files(t, root, files, i) ==
    IF i > Len(files) THEN None
    ELSE LET r == read_text(t, root \o <<files[i]>>)
             content == lower(r.val)
             found == IF exists(t, root \o <<files[i]>>) /\ r.exc = NoError
                      THEN IF In("fastapi", content) \/ In("from fastapi", content)
                           THEN "FASTAPI"
                           ELSE IF In("flask", content) \/ In("from flask", content)
                           THEN "FLASK" ELSE None
                      ELSE None
         IN IF found # None THEN found ELSE python_main_files(t, root, files, i + 1)

\* Mutant: the results of the first two content checks are exchanged.
python_test_content_swapped(content) ==
    IF AnyIn({"import pytest", "from pytest", "@pytest"}, content) THEN "UNITTEST"
    ELSE IF AnyIn({"import unittest", "unittest.main", "testcase"}, content) THEN "PYTEST"
    ELSE IF In("import nose", content) THEN "NOSE"
    ELSE IF AnyIn({"testclient", "fastapi", "from fastapi"}, content) THEN "FASTAPI"
    ELSE IF AnyIn({"django.test", "testcase", "from django"}, content) THEN "DJANGO"
    ELSE IF AnyIn({"flask_testing", "flask.cli"}, content) THEN "FLASK"
    ELSE None

\* The checks of one test file of _detect_python_test_framework
python_test_content(content) ==
    IF AnyIn({"import pytest", "from pytest", "@pytest"}, content) THEN "PYTEST"
    ELSE IF AnyIn({"import unittest", "unittest.main", "testcase"}, content) THEN "UNITTEST"
    ELSE IF In("import nose", content) THEN "NOSE"
    ELSE IF AnyIn({"testclient", "fastapi", "from fastapi"}, content) THEN "FASTAPI"
    ELSE IF AnyIn({"django.test", "testcase", "from django"}, content) THEN "DJANGO"
    ELSE IF AnyIn({"flask_testing", "flask.cli"}, content) THEN "FLASK"
    ELSE None

\* for test_file in self.test_files[:10]: if test_file.suffix == '.py': ...
RECURSIVE python_test_files(_, _, _)
python_test_files(t, files, i) ==
    IF i > Len(files) \/ i > 10 THEN None
    ELSE LET r == read_text(t, files[i])
             found == IF suffix(path_name(files[i])) = ".py" /\ r.exc = NoError
                      THEN python_test_content(lower(r.val)) ELSE None
         IN IF found # None THEN found ELSE python_test_files(t, files, i + 1)

detect_python_test_framework(t, root, files) ==
    LET config == python_config_files(t, root,
                    <<"requirements.txt", "pyproject.toml", "setup.py", "Pipfile",
                      "setup.cfg", "tox.ini">>, 1)
        main == python_main_files(t, root, <<"main.py", "app.py", "application.py">>, 1)
        tests == python_test_files(t, files, 1)
        pyproject == read_text(t, root \o <<"pyproject.toml">>)
    IN IF config # None THEN config
       ELSE IF main # None THEN main
       ELSE IF tests # None THEN tests
       ELSE IF exists(t, root \o <<"pytest.ini">>) THEN "PYTEST"
       ELSE IF /\ exists(t, root \o <<"pyproject.toml">>)
               /\ pyproject.exc = NoError
               /\ (In("[tool.pytest]", pyproject.val)
                   \/ In("[tool.pytest.ini_options]", pyproject.val))
       THEN "PYTEST"
       ELSE "PYTEST"

detect_js_test_framework(t, root) ==
    LET r == read_text(t, root \o <<"package.json">>)
        doc == IF r.exc = NoError THEN json_document(r.val) ELSE r
        dependencies == IF exists(t, root \o <<"package.json">>) /\ doc.exc = NoError
                        THEN merged_keys(doc.val, "dependencies", "devDependencies")
                        ELSE {}
        present(names) == \E n \in names : exists(t, root \o <<n>>)
    IN IF "cypress" \in dependencies THEN "CYPRESS"
       ELSE IF "jest" \in dependencies THEN "JEST"
       ELSE IF "mocha" \in dependencies THEN "MOCHA"
       ELSE IF "vitest" \in dependencies THEN "VITEST"
       ELSE IF "playwright" \in dependencies THEN "PLAYWRIGHT"
       ELSE IF "jasmine" \in dependencies THEN "JASMINE"
       ELSE IF present({"cypress"}) THEN "CYPRESS"
       ELSE IF present({"playwright.config.js", "playwright.config.ts"}) THEN "PLAYWRIGHT"
       ELSE IF present({"jest.config.js", "jest.config.ts"}) THEN "JEST"
       ELSE IF present({"vitest.config.js", "vitest.config.ts"}) THEN "VITEST"
       ELSE IF present({".mocharc.js", ".mocharc.json"}) THEN "MOCHA"
       ELSE "JEST"

\* The result of the first item of a loop that returns
first_found(results) ==
    IF \E i \in 1..Len(results) : results[i] # None
    THEN results[CHOOSE i \in 1..Len(results) :
                    results[i] # None /\ \A j \in 1..(i - 1) : results[j] = None]
    ELSE None

\* self.test_files[:n]
sample(files, n) == SubSeq(files, 1, IF Len(files) < n THEN Len(files) ELSE n)

\* The text of each sampled test file; None for one that cannot be read
\* (try: ... except: continue)
sampled_texts(t, files, n) ==
    [i \in 1..Len(sample(files, n)) |->
        IF read_text(t, files[i]).exc = NoError THEN read_text(t, files[i]).val ELSE None]

\* The text of a manifest; None when it is absent or cannot be read
manifest_text(t, p) ==
    IF exists(t, p) /\ read_text(t, p).exc = NoError THEN read_text(t, p).val ELSE None

java_manifest(content) ==
    IF In("testng", content) THEN "TESTNG"
    ELSE IF In("spock", content) THEN "SPOCK"
    ELSE IF In("junit", content) THEN "JUNIT"
    ELSE None

java_test_content(content) ==
    IF In("@Test", content) /\ In("org.testng", content) THEN "TESTNG"
    ELSE IF In("extends Specification", content) \/ In("spock.lang", content) THEN "SPOCK"
    ELSE IF In("@Test", content) /\ In("org.junit", content) THEN "JUNIT"
    ELSE None

detect_java_test_framework(t, root, files) ==
    LET pom == manifest_text(t, root \o <<"pom.xml">>)
        gradle == manifest_text(t, root \o <<"build.gradle">>)
        texts == sampled_texts(t, files, 5)
        found == first_found(<<
            IF pom # None THEN java_manifest(lower(pom)) ELSE None,
            IF gradle # None THEN java_manifest(lower(gradle)) ELSE None,
            first_found([i \in 1..Len(texts) |->
                IF texts[i] # None THEN java_test_content(texts[i]) ELSE None]) >>)
    IN IF found # None THEN found ELSE "JUNIT"

go_test_content(content) ==
    IF In("import .gopkg.in/check.v1", content) \/ In("gocheck", content) THEN "GOCHECK"
    ELSE IF In("github.com/stretchr/testify", content) THEN "TESTIFY"
    ELSE None

detect_go_test_framework(t, root, files) ==
    LET go_mod == manifest_text(t, root \o <<"go.mod">>)
        texts == sampled_texts(t, files, 5)
        found == first_found(<<
            IF go_mod = None THEN None
            ELSE IF In("gopkg.in/check.v1", lower(go_mod)) THEN "GOCHECK"
            ELSE IF In("github.com/stretchr/testify", lower(go_mod)) THEN "TESTIFY"
            ELSE None,
            first_found([i \in 1..Len(texts) |->
                IF texts[i] # None THEN go_test_content(texts[i]) ELSE None]) >>)
    IN IF found # None THEN found ELSE "GO_TEST"

cpp_test_content(content) ==
    IF In("#include <gtest/gtest.h>", content) \/ In("TEST_F", content) THEN "GOOGLE_TEST"
    ELSE IF In("#include <catch2/catch.hpp>", content) \/ In("CATCH_TEST_CASE", content)
    THEN "CATCH2"
    ELSE IF In("#include <boost/test/unit_test.hpp>", content) THEN "BOOST_TEST"
    ELSE IF In("#include <cppunit/", content) THEN "CPPUNIT"
    ELSE None

detect_cpp_test_framework(t, root, files) ==
    LET cmake == manifest_text(t, root \o <<"CMakeLists.txt">>)
        texts == sampled_texts(t, files, 5)
        found == first_found(<<
            IF cmake = None THEN None
            ELSE IF In("gtest", cmake) \/ In("GTest", cmake) THEN "GOOGLE_TEST"
            ELSE IF In("catch2", cmake) THEN "CATCH2"
            ELSE IF In("boost_test", cmake) THEN "BOOST_TEST"
            ELSE None,
            first_found([i \in 1..Len(texts) |->
                IF texts[i] # None THEN cpp_test_content(texts[i]) ELSE None]) >>)
    IN IF found # None THEN found ELSE "GOOGLE_TEST"

csharp_project(content) ==
    IF In("nunit", content) THEN "NUNIT"
    ELSE IF In("xunit", content) THEN "XUNIT"
    ELSE IF In("mstest", content) THEN "MSTEST"
    ELSE None

csharp_test_content(content) ==
    IF In("[TestFixture]", content) \/ In("using NUnit.Framework", content) THEN "NUNIT"
    ELSE IF In("[Fact]", content) \/ In("using Xunit", content) THEN "XUNIT"
    ELSE IF \/ In("[TestMethod]", content)
            \/ In("using Microsoft.VisualStudio.TestTools.UnitTesting", content)
    THEN "MSTEST"
    ELSE None

\* csprojs: the project files in the order search_path.glob("**/*.csproj")
\* yields them
detect_csharp_test_framework(t, csprojs, files) ==
    LET texts == sampled_texts(t, files, 5)
        found == first_found(<<
            first_found([i \in 1..Len(csprojs) |->
                IF read_text(t, csprojs[i]).exc = NoError
                THEN csharp_project(lower(read_text(t, csprojs[i]).val)) ELSE None]),
            first_found([i \in 1..Len(texts) |->
                IF texts[i] # None THEN csharp_test_content(texts[i]) ELSE None]) >>)
    IN IF found # None THEN found ELSE "NUNIT"

detect_php_test_framework(t, root, files) ==
    LET composer == manifest_text(t, root \o <<"composer.json">>)
        doc == IF composer # None THEN json_document(composer) ELSE Raise("OSError")
        dependencies == IF doc.exc = NoError
                        THEN merged_keys(doc.val, "require", "require-dev") ELSE {}
        texts == sampled_texts(t, files, 5)
    IN IF "phpunit/phpunit" \in dependencies THEN "PHPUNIT"
       ELSE IF \E i \in 1..Len(texts) :
                    /\ texts[i] # None
                    /\ (In("PHPUnit\\Framework\\TestCase", texts[i])
                        \/ In("use PHPUnit\\Framework\\TestCase", texts[i]))
       THEN "PHPUNIT"
       ELSE "PHPUNIT"

ruby_test_content(content) ==
    IF In("describe", content) /\ In("RSpec", content) THEN "RSPEC"
    ELSE IF In("Minitest::Test", content) \/ In("MiniTest::Unit::TestCase", content)
    THEN "MINITEST"
    ELSE None

detect_ruby_test_framework(t, root, files) ==
    LET gemfile == manifest_text(t, root \o <<"Gemfile">>)
        texts == sampled_texts(t, files, 5)
        found == first_found(<<
            IF gemfile = None THEN None
            ELSE IF In("rspec", gemfile) THEN "RSPEC"
            ELSE IF In("minitest", gemfile) THEN "MINITEST"
            ELSE None,
            IF exists(t, root \o <<"spec">>) \/ exists(t, root \o <<".rspec">>)
            THEN "RSPEC" ELSE None,
            IF exists(t, root \o <<"test">>) THEN "MINITEST" ELSE None,
            first_found([i \in 1..Len(texts) |->
                IF texts[i] # None THEN ruby_test_content(texts[i]) ELSE None]) >>)
    IN IF found # None THEN found ELSE "RSPEC"

-----------------------------------------------------------------------------
(* detect_test_type, get_test_command, analyze_single_project *)

\* Mutant: a Go project is handed to the C++ cascade.
cascade_go_as_cpp(t, root, files, csprojs, project_language) ==
    CASE project_language = "Java" -> detect_java_test_framework(t, root, files)
      [] project_language = "Python" -> detect_python_test_framework(t, root, files)
      [] project_language \in {"JavaScript", "TypeScript"} -> detect_js_test_framework(t, root)
      [] project_language \in {"Go", "C++"} -> detect_cpp_test_framework(t, root, files)
      [] project_language = "C#" -> detect_csharp_test_framework(t, csprojs, files)
      [] project_language = "PHP" -> detect_php_test_framework(t, root, files)
      [] project_language = "Ruby" -> detect_ruby_test_framework(t, root, files)

\* The cascade of a language
cascade(t, root, files, csprojs, project_language) ==
    CASE project_language = "Java" -> detect_java_test_framework(t, root, files)
      [] project_language = "Python" -> detect_python_test_framework(t, root, files)
      [] project_language \in {"JavaScript", "TypeScript"} -> detect_js_test_framework(t, root)
      [] project_language = "Go" -> detect_go_test_framework(t, root, files)
      [] project_language = "C++" -> detect_cpp_test_framework(t, root, files)
      [] project_language = "C#" -> detect_csharp_test_framework(t, csprojs, files)
      [] project_language = "PHP" -> detect_php_test_framework(t, root, files)
      [] project_language = "Ruby" -> detect_ruby_test_framework(t, root, files)

\* When the language is not one of the eight: by the suffixes of the test files
by_suffix(t, root, files, csprojs) ==
    LET has(suffixes) == \E i \in 1..Len(files) : suffix(path_name(files[i])) \in suffixes
    IN IF has({".py"}) THEN cascade(t, root, files, csprojs, "Python")
       ELSE IF has({".js", ".ts", ".jsx", ".tsx"}) THEN cascade(t, root, files, csprojs, "JavaScript")
       ELSE IF has({".java"}) THEN cascade(t, root, files, csprojs, "Java")
       ELSE IF has({".go"}) THEN cascade(t, root, files, csprojs, "Go")
       ELSE IF has({".cpp", ".cc", ".cxx"}) THEN cascade(t, root, files, csprojs, "C++")
       ELSE IF has({".cs"}) THEN cascade(t, root, files, csprojs, "C#")
       ELSE IF has({".php"}) THEN cascade(t, root, files, csprojs, "PHP")
       ELSE IF has({".rb"}) THEN cascade(t, root, files, csprojs, "Ruby")
       ELSE "UNKNOWN"

\* detect_test_type once self.test_files is `files` (the cached list when it
\* is not empty, else the list discover_test_files has just stored), for one
\* traversal order of rglob and one of glob("**/*.csproj")
detect_test_type(t, root, files, order, csprojs) ==
    IF files = <<>> THEN "UNKNOWN"
    ELSE IF detect_project_language(order) # "Unknown"
    THEN cascade(t, root, files, csprojs, detect_project_language(order))
    ELSE by_suffix(t, root, files, csprojs)

\* base_commands of get_test_command
base_commands(test_type) ==
    CASE test_type \in {"PYTEST", "FASTAPI", "FLASK", "STARLETTE"} -> "pytest"
      [] test_type = "UNITTEST" -> "python -m unittest"
      [] test_type = "NOSE" -> "nosetests"
      [] test_type = "DJANGO" -> "python manage.py test"
      [] test_type = "JEST" -> "npx jest"
      [] test_type = "MOCHA" -> "npx mocha"
      [] test_type = "JASMINE" -> "npx jasmine"
      [] test_type = "CYPRESS" -> "npx cypress run"
      [] test_type = "PLAYWRIGHT" -> "npx playwright test"
      [] test_type = "VITEST" -> "npx vitest run"
      [] test_type \in {"JUNIT", "TESTNG", "MAVEN_SUREFIRE"} -> "mvn test"
      [] test_type = "SPOCK" -> "./gradlew test"
      [] test_type \in {"GO_TEST", "GOCHECK", "TESTIFY"} -> "go test"
      [] test_type = "GOOGLE_TEST" -> "./run_tests"
      [] test_type = "CATCH2" -> "./tests"
      [] test_type \in {"BOOST_TEST", "CPPUNIT"} -> "./test_runner"
      [] test_type \in {"NUNIT", "XUNIT", "MSTEST"} -> "dotnet test"
      [] test_type = "PHPUNIT" -> "./vendor/bin/phpunit"
      [] test_type = "RSPEC" -> "bundle exec rspec"
      [] test_type = "MINITEST" -> "bundle exec rake test"
      \* the placeholder of the source is a Russian sentence ("test type is not
      \* supported"), written here in ASCII
      [] OTHER -> "echo 'test type is not supported'"

\* The members of the enumeration TestType, by name
TestType ==
    {"PYTEST", "UNITTEST", "NOSE", "DJANGO", "FASTAPI", "FLASK", "STARLETTE",
     "JEST", "MOCHA", "JASMINE", "CYPRESS", "PLAYWRIGHT", "VITEST",
     "JUNIT", "TESTNG", "SPOCK", "MAVEN_SUREFIRE", "GO_TEST", "GOCHECK", "TESTIFY",
     "GOOGLE_TEST", "CATCH2", "BOOST_TEST", "CPPUNIT", "NUNIT", "XUNIT", "MSTEST",
     "PHPUNIT", "RSPEC", "MINITEST", "UNKNOWN"}

\* Mutant: a type outside the table has no command.
get_test_command_strict(test_type, specific_file, additional_args) ==
    (IF test_type \in TestType \ {"UNKNOWN"} THEN <<base_commands(test_type)>> ELSE <<>>)
    \o (IF specific_file \notin {None, ""} THEN <<specific_file>> ELSE <<>>)
    \o (IF additional_args # "" THEN <<additional_args>> ELSE <<>>)

\* get_test_command: the command as the sequence of the parts that single
\* blanks join; specific_file is None or a string, and an empty string adds
\* nothing
get_test_command(test_type, specific_file, additional_args) ==
    <<base_commands(test_type)>>
    \o (IF specific_file \notin {None, ""} THEN <<specific_file>> ELSE <<>>)
    \o (IF additional_args # "" THEN <<additional_args>> ELSE <<>>)

\* _get_all_commands: the three entries every test type has; with_verbose is
\* replaced by the literal "go test -v" for GO_TEST, which is the same text
get_all_commands(test_type) ==
    [all_tests |-> get_test_command(test_type, None, ""),
     with_verbose |-> IF test_type = "GO_TEST" THEN <<"go test -v">>
                      ELSE get_test_command(test_type, None, "-v"),
     specific_file |-> get_test_command(test_type, "<test_file>", "")]

\* The summary analyze_single_project returns (its test_type, file count,
\* base command and language entries)
analyze_single_project(t, root, files, order, csprojs) ==
    LET \* detect_test_type finds self.test_files set, or discovers again when
        \* the list is empty; the tree is the same, so is the list
        test_type == detect_test_type(t, root, files, order, csprojs)
    IN [project_root |-> root,
        test_type |-> test_type,
        test_files_count |-> Len(files),
        base_command |-> get_test_command(test_type, None, ""),
        project_language |-> detect_project_language(order),
        status |-> "success"]

-----------------------------------------------------------------------------
(* The trees TestFramework is run on, and its operations as actions         *)

\* What an entry of a given name can be
Entries(n) ==
    CASE n \in {"test_dir.py", "cypress", "spec"} -> {Dir}
      [] n \in {"test_foo.py", "test_bar.py"} ->
            {Text(""), Text("import pytest"), Text("import unittest")}
      [] n = "requirements.txt" ->
            {Text(""), Text("pytest==7.0"), Text("Django"), Text(NoRead)}
      [] n = "main.py" -> {Text(""), Text("from fastapi import FastAPI")}
      [] n = "package.json" ->
            {Text("{}"), Text("{"),
             Text("{\"devDependencies\": {\"jest\": \"^29\"}}"),
             Text("{\"dependencies\": {\"mocha\": \"^10\"}}"),
             Text("{\"dependencies\": {\"jest\": \"^29\"}, \"devDependencies\": {\"cypress\": \"^13\"}}")}
      [] n \in {"FooTest.java", "BarTests.java"} ->
            {Text(""), Text("import org.junit.Test; @Test")}
      [] n = "pom.xml" ->
            {Text(""), Text("<artifactId>testng</artifactId>"),
             Text("<artifactId>junit</artifactId>")}
      [] n = "build.gradle" ->
            {Text(""), Text("testImplementation 'org.spockframework:spock-core'")}
      [] n = "foo_test.go" ->
            {Text(""), Text("import \"github.com/stretchr/testify/assert\"")}
      [] n = "go.mod" ->
            {Text(""), Text("require gopkg.in/check.v1 v1.0.0"),
             Text("require github.com/stretchr/testify v1.8.0")}
      [] n = "foo_test.cpp" ->
            {Text(""), Text("#include <catch2/catch.hpp>"), Text("TEST_F(Foo, Bar)")}
      [] n = "CMakeLists.txt" ->
            {Text(""), Text("find_package(GTest)"), Text("find_package(catch2)")}
      [] n = "FooTest.cs" -> {Text(""), Text("[Fact]")}
      [] n = "App.csproj" ->
            {Text(""), Text("<PackageReference Include=\"xunit\" />"),
             Text("<PackageReference Include=\"NUnit\" />")}
      [] n = "FooTest.php" -> {Text(""), Text("use PHPUnit\\Framework\\TestCase;")}
      [] n = "composer.json" ->
            {Text("{}"), Text("{\"require-dev\": {\"phpunit/phpunit\": \"^10\"}}")}
      [] n = "foo_spec.rb" ->
            {Text(""), Text("RSpec.describe Foo"), Text("class FooTest < Minitest::Test")}
      [] n = "Gemfile" -> {Text(""), Text("gem 'rspec'"), Text("gem 'minitest'")}
      [] OTHER -> {Text("")}

\* The trees over a set of paths: [path -> entry], each entry one that its
\* name allows
RECURSIVE TreesOver(_)
TreesOver(S) ==
    IF S = {} THEN {EmptyDir}
    ELSE LET p == CHOOSE x \in S : TRUE
         IN {(p :> e) @@ t : e \in Entries(path_name(p)), t \in TreesOver(S \ {p})}

\* The tree with every path put below root
Under(root, t) == [q \in {root \o p : p \in DOMAIN t} |-> t[SubSeq(q, Len(root) + 1, Len(q))]]

\* The other project of the base directory: one test file
QTree == <<"test_foo.py">> :> Text("import unittest")

\* A base directory with the projects p and q; p holds at most MaxFiles
\* entries, all of one family (it can be empty), q is QTree.  The instance is new: no cached test files.
TestInit ==
    /\ \E family \in Families :
       \E S \in {X \in SUBSET FamilyPaths(family) : Cardinality(X) <= MaxFiles} :
       \E tp \in TreesOver(S) :
            tree = (P :> Dir) @@ (Q :> Dir) @@ Under(P, tp) @@ Under(Q, QTree)
    /\ test_files = <<>>
    /\ projects = <<>>
    /\ pc = "tests"
    /\ ret = EmptyDir
    /\ arg = None
    /\ fs = EmptyDir
    /\ docker_gen = FALSE
    /\ data = EmptyDir
    /\ raised = NoError

Returned(op, path, value) == [op |-> op, path |-> path, value |-> value]

\* glob("**/*.csproj") of _detect_csharp_test_framework, in any order
csproj_orders(t, root) ==
    Orderings({root \o p : p \in {q \in Below(t, root) : path_match(<<"**", "*.csproj">>, q)}})

\* framework.discover_test_files(root)
DiscoverTestFiles ==
    /\ pc = "tests"
    /\ \E root \in {P, Q} : \E files \in discover_test_files(tree, root) :
        /\ test_files' = files
        /\ ret' = Returned("discover_test_files", root, files)
    /\ UNCHANGED <<fs, docker_gen, pc, data, raised, arg, tree, projects>>

\* framework.detect_test_type(root): the test files are discovered only when
\* none are cached
DetectTestType ==
    /\ pc = "tests"
    /\ \E root \in {P, Q} :
       \E files \in (IF test_files # <<>> THEN {test_files}
                     ELSE discover_test_files(tree, root)) :
       \E order \in rglob_orders(tree, root), csprojs \in csproj_orders(tree, root) :
        /\ test_files' = files
        /\ ret' = Returned("detect_test_type", root,
                           detect_test_type(tree, root, files, order, csprojs))
    /\ UNCHANGED <<fs, docker_gen, pc, data, raised, arg, tree, projects>>

\* framework._detect_project_language(root)
DetectProjectLanguage ==
    /\ pc = "tests"
    /\ \E root \in {P, Q} : \E order \in rglob_orders(tree, root) :
        ret' = Returned("_detect_project_language", root, detect_project_language(order))
    /\ UNCHANGED <<fs, docker_gen, pc, data, raised, arg, tree, test_files, projects>>

\* framework.analyze_single_project(root)
AnalyzeSingleProject ==
    /\ pc = "tests"
    /\ \E root \in {P, Q} : \E files \in discover_test_files(tree, root) :
       \E order \in rglob_orders(tree, root), csprojs \in csproj_orders(tree, root) :
        /\ test_files' = files
        /\ ret' = Returned("analyze_single_project", root,
                           analyze_single_project(tree, root, files, order, csprojs))
    /\ UNCHANGED <<fs, docker_gen, pc, data, raised, arg, tree, projects>>

TestNext ==
    \/ DiscoverTestFiles
    \/ DetectTestType
    \/ DetectProjectLanguage
    \/ AnalyzeSingleProject

SpecTests == TestInit /\ [][TestNext]_vars

-----------------------------------------------------------------------------
(* discover_projects *)

\* project_indicators of _analyze_project_candidate, in the order of the source
project_indicators ==
    [strong |-> <<"requirements.txt", "package.json", "pom.xml", "go.mod", "setup.py",
                  "pyproject.toml", "Cargo.toml", "composer.json", "Gemfile", "*.csproj">>,
     medium |-> <<"src", "tests", "test", "lib">>,
     weak |-> <<"README.md", ".gitignore", "LICENSE">>]

\* lang_mapping of _detect_language_from_files, in dict order
lang_mapping == <<
    <<"requirements.txt", "Python">>, <<"setup.py", "Python">>, <<"pyproject.toml", "Python">>,
    <<"package.json", "JavaScript">>, <<"pom.xml", "Java">>, <<"build.gradle", "Java">>,
    <<"go.mod", "Go">>, <<"Cargo.toml", "Rust">>, <<"composer.json", "PHP">>,
    <<"Gemfile", "Ruby">>, <<"*.csproj", "C#">> >>

\* The language of one file name: the first pattern of lang_mapping it matches
RECURSIVE mapped_language(_, _)
mapped_language(file_name, i) ==
    IF i > Len(lang_mapping) THEN None
    ELSE IF \/ lang_mapping[i][1] = "*.csproj" /\ suffix(file_name) = ".csproj"
            \/ file_name = lang_mapping[i][1]
         THEN lang_mapping[i][2]
    ELSE mapped_language(file_name, i + 1)

\* Mutant: the files are looked at from the last one.
RECURSIVE detect_language_from_files_last(_, _)
detect_language_from_files_last(files, i) ==
    IF i > Len(files) THEN "Unknown"
    ELSE IF mapped_language(files[Len(files) + 1 - i], 1) # None
         THEN mapped_language(files[Len(files) + 1 - i], 1)
    ELSE detect_language_from_files_last(files, i + 1)

\* _detect_language_from_files: the language of the first file that has one
RECURSIVE detect_language_from_files(_, _)
detect_language_from_files(files, i) ==
    IF i > Len(files) THEN "Unknown"
    ELSE IF mapped_language(files[i], 1) # None THEN mapped_language(files[i], 1)
    ELSE detect_language_from_files(files, i + 1)

\* strong_matches: the names of the strong indicators present, in their
\* order; "*.csproj" stands by the name dummy.csproj when the glob finds an
\* entry.  `entries` are the names of the entries of the candidate.
RECURSIVE strong_matches(_, _)
strong_matches(entries, i) ==
    IF i > Len(project_indicators.strong) THEN <<>>
    ELSE LET ind == project_indicators.strong[i]
             hit == IF ind = "*.csproj"
                    THEN IF \E n \in entries : fnmatch(n, "*.csproj")
                         THEN <<"dummy.csproj">> ELSE <<>>
                    ELSE IF ind \in entries THEN <<ind>> ELSE <<>>
         IN hit \o strong_matches(entries, i + 1)

\* [ind for ind in indicators if ind.exists()]
present_indicators(entries, indicators) ==
    SelectSeq(indicators, LAMBDA ind : ind \in entries)

\* Mutant: a weak indicator weighs as much as a medium one.
score_weak_heavy(strong, medium, weak) == 4 * strong + 2 * medium + 2 * weak

\* confidence, counted in halves: 2.0 for each strong match, 1.0 for each
\* medium one, 0.5 for each weak one
score(strong, medium, weak) == 4 * strong + 2 * medium + weak

\* _analyze_project_candidate: the sequence of one ProjectInfo, or the empty
\* sequence for None below the threshold 1.0
analyze_project_candidate(t, candidate) ==
    LET entries == {q[1] : q \in Below(t, candidate)}
        strong == strong_matches(entries, 1)
        medium == present_indicators(entries, project_indicators.medium)
        weak == present_indicators(entries, project_indicators.weak)
        confidence == score(Len(strong), Len(medium), Len(weak))
    IN IF confidence >= 2
       THEN <<[path |-> candidate, name |-> path_name(candidate),
               language |-> IF strong # <<>> THEN detect_language_from_files(strong, 1)
                            ELSE "Unknown",
               confidence |-> confidence]>>
       ELSE <<>>

\* Names that begin with "."
hidden(n) == n \in {".git", ".gitignore", ".rspec", ".mocharc.json"}

\* The loop of discover_projects over base_path.iterdir(), whose entries come
\* in the order `items`
RECURSIVE candidates(_, _, _)
candidates(t, items, i) ==
    IF i > Len(items) THEN <<>>
    ELSE LET project_info == IF is_dir(t, items[i]) /\ ~hidden(path_name(items[i]))
                             THEN analyze_project_candidate(t, items[i]) ELSE <<>>
         IN project_info \o candidates(t, items, i + 1)

\* Mutant: the item goes before the first item of a greater confidence.
RECURSIVE insert_by_confidence_asc(_, _)
insert_by_confidence_asc(sorted, item) ==
    IF sorted = <<>> THEN <<item>>
    ELSE IF Head(sorted).confidence <= item.confidence
         THEN <<Head(sorted)>> \o insert_by_confidence_asc(Tail(sorted), item)
         ELSE <<item>> \o sorted

\* One step of projects.sort(key=confidence, reverse=True), a stable sort
RECURSIVE insert_by_confidence(_, _)
insert_by_confidence(sorted, item) ==
    IF sorted = <<>> THEN <<item>>
    ELSE IF Head(sorted).confidence >= item.confidence
         THEN <<Head(sorted)>> \o insert_by_confidence(Tail(sorted), item)
         ELSE <<item>> \o sorted

RECURSIVE sort_projects(_, _, _)
sort_projects(items, i, sorted) ==
    IF i > Len(items) THEN sorted
    ELSE sort_projects(items, i + 1, insert_by_confidence(sorted, items[i]))

\* discover_projects for one order of iterdir()
discover_projects(t, items) == sort_projects(candidates(t, items, 1), 1, <<>>)

\* The entries a project candidate can hold: every indicator, and names that
\* are no indicator
CandidateNames ==
    {"requirements.txt", "package.json", "pom.xml", "go.mod", "setup.py", "pyproject.toml",
     "Cargo.toml", "composer.json", "Gemfile", "App.csproj", "Lib.csproj",
     "src", "tests", "test", "lib", "README.md", ".gitignore", "LICENSE",
     "main.py", "build.gradle"}

\* The directory of the given name holding the given entries; src, tests,
\* test and lib are directories
Candidate(dir_name, names) ==
    (<<dir_name>> :> Dir)
    @@ [q \in {<<dir_name, n>> : n \in names} |->
            IF q[2] \in {"src", "tests", "test", "lib"} THEN Dir ELSE Text("")]

\* What the second child directory can hold
SecondCandidates ==
    {{}, {"go.mod"}, {"README.md"}, {"src"}, {"README.md", ".gitignore"}}

\* The children of the base directory
iterdir(t) == {<<q[1]>> : q \in DOMAIN t}

\* A base directory with the child directories a (at most MaxMarkers
\* entries) and b, the hidden directory .git that holds a package.json, and
\* the regular file LICENSE
ProjectsInit ==
    /\ \E S \in NameSets(CandidateNames, MaxMarkers) :
       \E B \in SecondCandidates :
            tree = Candidate("a", S) @@ Candidate("b", B)
                   @@ Candidate(".git", {"package.json"}) @@ (<<"LICENSE">> :> Text(""))
    /\ test_files = <<>>
    /\ projects = <<>>
    /\ pc = "projects"
    /\ ret = EmptyDir
    /\ arg = None
    /\ fs = EmptyDir
    /\ docker_gen = FALSE
    /\ data = EmptyDir
    /\ raised = NoError

\* framework.discover_projects(); iterdir() yields the children in any order
DiscoverProjects ==
    /\ pc = "projects"
    /\ \E items \in Orderings(iterdir(tree)) :
        /\ projects' = discover_projects(tree, items)
        /\ ret' = Returned("discover_projects", <<>>, projects')
    /\ UNCHANGED <<fs, docker_gen, pc, data, raised, arg, tree, test_files>>

ProjectsNext == DiscoverProjects

SpecProjects == ProjectsInit /\ [][ProjectsNext]_vars

-----------------------------------------------------------------------------
(* Project discovery: the score, the order and the language guess           *)

\* The non-hidden immediate child directories of the base directory
ChildDirs == {c \in iterdir(tree) : is_dir(tree, c) /\ ~hidden(c[1])}

\* The names of the entries of the child c
EntryNames(c) == {q[2] : q \in {x \in DOMAIN tree : Len(x) = 2 /\ x[1] = c[1]}}

\* The strong markers present in c, as the indexes of the fixed order
StrongPresent(c) ==
    {i \in 1..Len(project_indicators.strong) :
        IF project_indicators.strong[i] = "*.csproj"
        THEN \E n \in EntryNames(c) : suffix(n) = ".csproj"
        ELSE project_indicators.strong[i] \in EntryNames(c)}

\* Twice the score of the child c: 2.0 per strong marker, 1.0 per medium
\* entry, 0.5 per weak file
TwiceScore(c) ==
    4 * Cardinality(StrongPresent(c))
    + 2 * Cardinality({"src", "tests", "test", "lib"} \cap EntryNames(c))
    + Cardinality({"README.md", ".gitignore", "LICENSE"} \cap EntryNames(c))

DiscoverProjectsReturned == ret # EmptyDir /\ ret.op = "discover_projects"

\* C17: discover_projects returns exactly the non-hidden immediate child
\* directories whose score 2.0*strong + 1.0*medium + 0.5*weak is at least
\* 1.0, each once and with confidence equal to that score; a child of a
\* lower score is never returned.
C17_ScoreAndThreshold ==
    DiscoverProjectsReturned =>
        /\ {ret.value[i].path : i \in 1..Len(ret.value)}
                = {c \in ChildDirs : TwiceScore(c) >= 2}
        /\ \A i, j \in 1..Len(ret.value) : ret.value[i].path = ret.value[j].path => i = j
        /\ \A i \in 1..Len(ret.value) : ret.value[i].confidence = TwiceScore(ret.value[i].path)

\* A child of score exactly 1.0 was returned and a child holding only
\* README.md was left out
C17_Witness ==
    /\ DiscoverProjectsReturned
    /\ \E i \in 1..Len(ret.value) : ret.value[i].confidence = 2
    /\ \E c \in ChildDirs :
        /\ EntryNames(c) = {"README.md"}
        /\ \A i \in 1..Len(ret.value) : ret.value[i].path # c

\* C18: the list discover_projects returns is ordered by non-increasing
\* confidence and holds no hidden directory, no regular file and no
\* directory deeper than an immediate child of the base path.
C18_SortedChildDirectories ==
    DiscoverProjectsReturned =>
        /\ \A i \in 1..Len(ret.value) - 1 :
                ret.value[i].confidence >= ret.value[i + 1].confidence
        /\ \A i \in 1..Len(ret.value) :
            /\ Len(ret.value[i].path) = 1
            /\ ~hidden(ret.value[i].name)
            /\ ~is_file(tree, ret.value[i].path)
            /\ is_dir(tree, ret.value[i].path)

\* Two projects of different confidence were returned, beside a hidden
\* directory with a strong marker, a regular file and a directory below a
\* child
C18_Witness ==
    /\ DiscoverProjectsReturned
    /\ Len(ret.value) = 2
    /\ ret.value[1].confidence > ret.value[2].confidence
    /\ <<".git", "package.json">> \in DOMAIN tree
    /\ is_file(tree, <<"LICENSE">>)
    /\ \E q \in DOMAIN tree : Len(q) = 2 /\ tree[q].is_dir

\* C19: the language guess of an accepted candidate is the language mapped
\* to the first strong marker present, in the fixed order of the strong
\* markers; it is "Unknown" exactly when no strong marker is present.
C19_LanguageOfFirstStrongMarker ==
    DiscoverProjectsReturned =>
        \A i \in 1..Len(ret.value) :
            LET present == StrongPresent(ret.value[i].path)
                first == CHOOSE k \in present : \A m \in present : k <= m
            IN /\ present # {} =>
                    ret.value[i].language = mapped_language(project_indicators.strong[first], 1)
               /\ ret.value[i].language = "Unknown" <=> present = {}

\* A candidate holding package.json and setup.py was guessed JavaScript, and
\* a candidate without a strong marker was accepted
C19_Witness ==
    /\ DiscoverProjectsReturned
    /\ \E i \in 1..Len(ret.value) :
        /\ EntryNames(ret.value[i].path) = {"package.json", "setup.py"}
        /\ ret.value[i].language = "JavaScript"
    /\ \E i \in 1..Len(ret.value) : ret.value[i].language = "Unknown"

-----------------------------------------------------------------------------
(* Test discovery and classification                                        *)

\* The last call was `op`
Called(op) == ret # EmptyDir /\ ret.op = op

\* The regular files below root that match at least one of test_patterns
MatchingFiles(root) ==
    {root \o p : p \in {q \in Below(tree, root) :
                            /\ is_file(tree, root \o q)
                            /\ \E i \in 1..Len(test_patterns) :
                                    /\ valid_pattern(test_patterns[i])
                                    /\ path_match(test_patterns[i], q)}}

\* C11: discover_test_files returns each matching regular file exactly once,
\* also when it matches several patterns; the set of the files returned is
\* the same in every traversal order and in every call on the same tree;
\* test_files_count is the number of distinct matching files.
C11_DiscoveryIsASet ==
    /\ Called("discover_test_files") =>
            /\ \A i, j \in 1..Len(ret.value) : ret.value[i] = ret.value[j] => i = j
            /\ {ret.value[i] : i \in 1..Len(ret.value)} = MatchingFiles(ret.path)
    /\ Called("analyze_single_project") =>
            ret.value.test_files_count = Cardinality(MatchingFiles(ret.path))

\* tests/test_bar.py, which matches "**/test_*.py" and "**/tests/**/*.py",
\* was returned beside test_foo.py, and the directory test_dir.py was not
C11_Witness ==
    /\ Called("discover_test_files")
    /\ ret.path = P
    /\ is_dir(tree, P \o <<"test_dir.py">>)
    /\ {ret.value[i] : i \in 1..Len(ret.value)}
            = {P \o <<"test_foo.py">>, P \o <<"tests", "test_bar.py">>}
    /\ Len(ret.value) = 2

\* The regular files below root
FilesBelow(root) == {root \o p : p \in {q \in Below(tree, root) : is_file(tree, root \o q)}}

\* The number of regular files below root whose suffix is ext
SuffixCount(root, ext) ==
    Cardinality({f \in FilesBelow(root) : suffix(path_name(f)) = ext})

\* The test evidence of the project at root is Python test files that import
\* pytest: there are test files, each a .py file importing pytest, and
\* neither a dependency manifest nor an entry-point file
OnlyPytestEvidence(root) ==
    /\ MatchingFiles(root) # {}
    /\ \A f \in MatchingFiles(root) :
            suffix(path_name(f)) = ".py" /\ tree[f].text = "import pytest"
    /\ \A n \in {"requirements.txt", "pyproject.toml", "setup.py", "Pipfile", "setup.cfg",
                 "tox.ini", "main.py", "app.py", "application.py"} :
            ~exists(tree, root \o <<n>>)

\* .py is the most frequent suffix of a known language below root, no other
\* one being as frequent
PythonOutnumbers(root) ==
    \A f \in FilesBelow(root) :
        lang_patterns(suffix(path_name(f))) \notin {"Unknown", "Python"}
            => SuffixCount(root, suffix(path_name(f))) < SuffixCount(root, ".py")

\* C12 (as stated): for a project whose only test evidence is Python test
\* files importing pytest, with no dependency manifest and no entry-point
\* file, analyze_single_project returns PYTEST and the number of discovered
\* test files.
C12_Original ==
    Called("analyze_single_project") /\ OnlyPytestEvidence(ret.path) =>
        /\ ret.value.test_type = "PYTEST"
        /\ ret.value.test_files_count = Cardinality(MatchingFiles(ret.path))

\* C12 (amended): the same for a project in which .py files outnumber the
\* files of every other known language suffix.
C12_PytestByContent ==
    /\ Called("analyze_single_project")
    /\ OnlyPytestEvidence(ret.path)
    /\ PythonOutnumbers(ret.path)
    => /\ ret.value.test_type = "PYTEST"
       /\ ret.value.test_files_count = Cardinality(MatchingFiles(ret.path))

\* The project holds test_foo.py importing pytest, lib.py and a.js, and
\* nothing else: PYTEST with one test file
C12_Witness ==
    /\ Called("analyze_single_project")
    /\ ret.path = P
    /\ OnlyPytestEvidence(P)
    /\ PythonOutnumbers(P)
    /\ FilesBelow(P) = {P \o <<"test_foo.py">>, P \o <<"lib.py">>, P \o <<"a.js">>}
    /\ ret.value.test_type = "PYTEST"
    /\ ret.value.test_files_count = 1

\* A language can be inferred from the suffixes of the files below root
LanguageInferable(root) ==
    \E f \in FilesBelow(root) : lang_patterns(suffix(path_name(f))) # "Unknown"

\* C13: detect_test_type returns UNKNOWN if and only if no test file was
\* discovered and no language could be inferred from the file extensions of
\* the project; a project whose language is inferable but that has no test
\* files gets the default framework of that language.
C13_UnknownOnlyWithoutLanguage ==
    Called("detect_test_type") =>
        (ret.value = "UNKNOWN" <=> test_files = <<>> /\ ~LanguageInferable(ret.path))

\* The default framework of a language
DefaultFramework(lang) ==
    CASE lang = "Python" -> "PYTEST"
      [] lang \in {"JavaScript", "TypeScript"} -> "JEST"
      [] lang = "Java" -> "JUNIT"
      [] lang = "Go" -> "GO_TEST"
      [] lang = "C++" -> "GOOGLE_TEST"
      [] lang = "C#" -> "NUNIT"
      [] lang = "PHP" -> "PHPUNIT"
      [] lang = "Ruby" -> "RSPEC"

\* The conventional config files and directories of a language
ConfigNames(lang) ==
    CASE lang = "Python" -> {"pytest.ini"}
      [] lang \in {"JavaScript", "TypeScript"} ->
            {"cypress", "playwright.config.js", "playwright.config.ts", "jest.config.js",
             "jest.config.ts", "vitest.config.js", "vitest.config.ts", ".mocharc.js",
             ".mocharc.json"}
      [] lang = "Ruby" -> {"spec", ".rspec", "test"}
      [] OTHER -> {}

\* No manifest, config-file or test-content check of the language can fire
\* below root: no file there names a framework or a library (each is empty,
\* an empty or broken JSON document, or unreadable) and no conventional
\* config file or directory of the language is there
NoCheckFires(root, lang) ==
    /\ \A f \in FilesBelow(root) : tree[f].text \in {"", "{}", "{", NoRead}
    /\ \A n \in ConfigNames(lang) : ~exists(tree, root \o <<n>>)

\* C14: when test files exist, the language is inferred and no manifest,
\* config-file or test-content check fires, the test type is the default of
\* the language (Python PYTEST, JavaScript/TypeScript JEST, Java JUNIT, Go
\* GO_TEST, C++ GOOGLE_TEST, C# NUNIT, PHP PHPUNIT, Ruby RSPEC); the test type
\* is never UNKNOWN when at least one test file was discovered.
C14_LanguageDefault ==
    /\ Called("detect_test_type") /\ test_files # <<>> => ret.value # "UNKNOWN"
    /\ Called("analyze_single_project") /\ ret.value.test_files_count > 0 =>
        /\ ret.value.test_type # "UNKNOWN"
        /\ /\ ret.value.project_language # "Unknown"
           /\ NoCheckFires(ret.path, ret.value.project_language)
           =>
                ret.value.test_type = DefaultFramework(ret.value.project_language)

\* A Go project of an empty foo_test.go and an empty go.mod was analyzed:
\* GO_TEST
C14_Witness ==
    /\ Called("analyze_single_project")
    /\ ret.path = P
    /\ FilesBelow(P) = {P \o <<"foo_test.go">>, P \o <<"go.mod">>}
    /\ NoCheckFires(P, "Go")
    /\ ret.value.test_files_count = 1
    /\ ret.value.project_language = "Go"
    /\ ret.value.test_type = "GO_TEST"

\* The framework that a conventional config file or directory stands for
ConfigFramework(n) ==
    CASE n = "pytest.ini" -> "PYTEST"
      [] n = "cypress" -> "CYPRESS"
      [] n \in {"playwright.config.js", "playwright.config.ts"} -> "PLAYWRIGHT"
      [] n \in {"jest.config.js", "jest.config.ts"} -> "JEST"
      [] n \in {"vitest.config.js", "vitest.config.ts"} -> "VITEST"
      [] n \in {".mocharc.js", ".mocharc.json"} -> "MOCHA"
      [] n \in {"spec", ".rspec"} -> "RSPEC"
      [] n = "test" -> "MINITEST"

\* The frameworks whose config file or directory is present below root
ConfigFrameworks(root, lang) ==
    {ConfigFramework(n) : n \in {x \in ConfigNames(lang) : exists(tree, root \o <<x>>)}}

\* No manifest check can fire: no file below root other than a test file
\* names a framework or a library
ManifestsSilent(root) ==
    \A f \in FilesBelow(root) \ MatchingFiles(root) : tree[f].text \in {"", "{}", "{", NoRead}

\* C15: the cascade of every language evaluates dependency manifest, then
\* config-file presence, then the content of the sampled test files, and
\* returns the framework of the first check that fires; so when no manifest
\* check fires and a config file is present (pytest.ini), its framework is
\* returned whatever the discovered test files hold ('import unittest').
C15_ConfigFileBeforeContent ==
    /\ Called("analyze_single_project")
    /\ ret.value.test_files_count > 0
    /\ ret.value.project_language # "Unknown"
    /\ ManifestsSilent(ret.path)
    /\ ConfigFrameworks(ret.path, ret.value.project_language) # {}
    => ret.value.test_type \in ConfigFrameworks(ret.path, ret.value.project_language)

\* The languages of the known suffixes that no known suffix outnumbers
MostFrequentLanguages(root) ==
    {lang_patterns(suffix(path_name(f))) : f \in {g \in FilesBelow(root) :
        /\ lang_patterns(suffix(path_name(g))) # "Unknown"
        /\ \A h \in FilesBelow(root) :
                lang_patterns(suffix(path_name(h))) # "Unknown"
                    => SuffixCount(root, suffix(path_name(h)))
                            <= SuffixCount(root, suffix(path_name(g)))}}

\* C16: _detect_project_language returns the language of the known
\* extension with the highest file count over the whole tree ("Unknown" when
\* there is none), and every traversal order of the tree gives the same
\* result, also when two known extensions have equal counts.
C16_LanguageIgnoresTraversalOrder ==
    Called("_detect_project_language") =>
        /\ IF LanguageInferable(ret.path)
           THEN ret.value \in MostFrequentLanguages(ret.path)
           ELSE ret.value = "Unknown"
        /\ \A order \in rglob_orders(tree, ret.path) :
                detect_project_language(order) = ret.value

\* The test types detect_test_type(root) can return on a new instance, whose
\* self.test_files is empty
FreshTestTypes(root) ==
    {detect_test_type(tree, root, files, order, csprojs) :
        files \in discover_test_files(tree, root),
        order \in rglob_orders(tree, root),
        csprojs \in csproj_orders(tree, root)}

\* C20: after any earlier discover_test_files / detect_test_type / analyze
\* calls on other paths, detect_test_type(P) on the same instance returns
\* what it returns on a new instance: the result depends on the tree of P
\* alone, not on test files cached from an earlier call.
C20_NoStaleTestFiles ==
    Called("detect_test_type") => ret.value \in FreshTestTypes(ret.path)

-----------------------------------------------------------------------------
(* get_test_command and _get_all_commands, called directly                   *)

\* A test type is handed over: a member of TestType, or a value that is none
CommandsInit ==
    /\ arg \in TestType \cup {"<not a member>"}
    /\ pc = "commands"
    /\ ret = EmptyDir
    /\ tree = EmptyDir
    /\ test_files = <<>>
    /\ projects = <<>>
    /\ fs = EmptyDir
    /\ docker_gen = FALSE
    /\ data = EmptyDir
    /\ raised = NoError

\* framework.get_test_command(test_type, specific_file, additional_args)
GetTestCommand ==
    /\ pc = "commands"
    /\ \E specific_file \in {None, "", "tests/test_a.py"}, additional_args \in {"", "-v"} :
        ret' = Returned("get_test_command", <<specific_file, additional_args>>,
                        get_test_command(arg, specific_file, additional_args))
    /\ UNCHANGED <<fs, docker_gen, pc, data, raised, arg, tree, test_files, projects>>

\* framework._get_all_commands(test_type)
GetAllCommands ==
    /\ pc = "commands"
    /\ ret' = Returned("_get_all_commands", <<>>, get_all_commands(arg))
    /\ UNCHANGED <<fs, docker_gen, pc, data, raised, arg, tree, test_files, projects>>

CommandsNext == GetTestCommand \/ GetAllCommands

SpecCommands == CommandsInit /\ [][CommandsNext]_vars

\* The placeholder command
Placeholder == base_commands("<not a member>")

\* C21: get_test_command is total over TestType: every member but UNKNOWN
\* gets the command of the static table, UNKNOWN and any value that is no
\* member get the placeholder, nothing raises; all_tests of
\* _get_all_commands is that base command.
C21_CommandsTotal ==
    /\ raised = NoError
    /\ Called("get_test_command") =>
        /\ Len(ret.value) >= 1
        /\ ret.value[1] = base_commands(arg)
        /\ ret.value[1] = Placeholder <=> arg \notin TestType \ {"UNKNOWN"}
    /\ Called("_get_all_commands") =>
        /\ ret.value.all_tests = <<base_commands(arg)>>
        /\ ret.value.all_tests = <<Placeholder>> <=> arg \notin TestType \ {"UNKNOWN"}

\* The command of UNKNOWN for a file and an argument was asked for
C21_Witness ==
    /\ Called("get_test_command")
    /\ arg = "UNKNOWN"
    /\ ret.value = <<Placeholder, "tests/test_a.py", "-v">>


-----------------------------------------------------------------------------
(* C22: the Dockerfile frame of ProjectAnalyzer._analyze *)

\* the step of _analyze that writes: step 7 with no Dockerfile and docker_gen
WritesDockerfile ==
    pc = "generate_dockerfile" /\ "Dockerfile" \notin DOMAIN fs /\ docker_gen

\* C22: a step of the project analysis changes the project directory if and
\* only if it is step 7 taken with no Dockerfile present and docker_gen true,
\* and what it changes is the one new entry Dockerfile: every entry that was
\* there, an existing Dockerfile included, stays as it was. When step 8 runs
\* with docker_gen false and no Dockerfile, dockerfile_info is None and
\* base_image is the build image of the detected language.
C22_DockerfileFrame ==
    [][ /\ (fs' # fs) <=> WritesDockerfile
        /\ WritesDockerfile =>
              /\ DOMAIN fs' = DOMAIN fs \cup {"Dockerfile"}
              /\ \A n \in DOMAIN fs : fs'[n] = fs[n]
              /\ fs'["Dockerfile"] = File(render_dockerfile(language, data["version"]))
        /\ (pc = "base_image" /\ pc' # "base_image"
              /\ ~docker_gen /\ "Dockerfile" \notin DOMAIN fs) =>
              /\ pc' = "detect_artifacts"
              /\ data'["dockerfile_info"] = None
              /\ data'["base_image"] = get_build_image(language, data["version"])
      ]_vars

\* an analysis with docker_gen has written the Dockerfile of a Go project and
\* read its final image back
C22_Witness ==
    /\ pc = "done" /\ docker_gen /\ language = "go"
    /\ fs["Dockerfile"] = File(render_dockerfile("go", data["version"]))
    /\ data["base_image"] = "alpine:latest"

\* an analysis without docker_gen has finished on a project without Dockerfile
C22_WitnessNone ==
    /\ pc = "done" /\ ~docker_gen /\ "Dockerfile" \notin DOMAIN fs
    /\ data["base_image"] = get_build_image(language, data["version"])


-----------------------------------------------------------------------------
(* The deploy stage: DeployStageGenerator (deploy/deploy_generator.py) *)

\* dict.get(key, default)
dict_get(d, key, default) == IF key \in DOMAIN d THEN d[key] ELSE default

\* the variable types that _render passes on as runtime variables
RUNTIME_TYPES ==
    {"secret", "database", "url", "runtime_config", "config", "port", "general"}

RECURSIVE runtime_env_vars(_, _)
runtime_env_vars(variables, i) ==
    IF i > Len(variables) THEN <<>>
    ELSE (IF variables[i].type \in RUNTIME_TYPES THEN <<variables[i].name>> ELSE <<>>)
         \o runtime_env_vars(variables, i + 1)

\* the params dictionary that _render builds from the config
render_params(config) ==
    [services |-> dict_get(config, "services", <<>>),
     is_monorepo |-> dict_get(config, "is_monorepo", FALSE),
     artifact_name |-> IF "artifact_paths" \notin DOMAIN config THEN "app"
                       ELSE config["artifact_paths"].artifact_name,
     project_name |-> dict_get(config, "language", "app"),
     env_vars |-> IF "env_summary" \notin DOMAIN config THEN <<>>
                  ELSE runtime_env_vars(config["env_summary"], 1)]

\* {% for var_name in env_vars %} - NAME=$NAME {% endfor %}
environment_lines(p) ==
    IF p.env_vars = <<>> THEN <<>>
    ELSE <<"environment:">>
         \o [i \in 1..Len(p.env_vars) |-> "- " \o p.env_vars[i] \o "=$" \o p.env_vars[i]]

RECURSIVE service_lines(_, _, _)
service_lines(p, registry, i) ==
    IF i > Len(p.services) THEN <<>>
    ELSE <<p.services[i].name \o ":",
           "image: " \o registry \o p.services[i].name \o ":${CI_COMMIT_SHA}">>
         \o environment_lines(p) \o service_lines(p, registry, i + 1)

\* the services block of a generated docker-compose.prod.yml: one service per
\* monorepo service, else the single service app with the given image
compose_lines(p, registry, app_image) ==
    IF p.is_monorepo THEN service_lines(p, registry, 1)
    ELSE <<"app:", "image: " \o app_image \o ":${CI_COMMIT_SHA}">> \o environment_lines(p)

DOCKER_REGISTRY_COMPOSE_TEMPLATE(p) ==
    <<"deploy_production:", "  stage: deploy",
      "DEPLOY STAGE - Docker Registry -> Server">>
    \o compose_lines(p, "${CI_REGISTRY_IMAGE}/", "${CI_REGISTRY_IMAGE}")

NEXUS_DOCKER_COMPOSE_TEMPLATE(p) ==
    <<"deploy_production:", "  stage: deploy",
      "DEPLOY STAGE - Nexus Docker Registry -> Server">>
    \o compose_lines(p, "${NEXUS_DOCKER_REGISTRY}/",
                     "${NEXUS_DOCKER_REGISTRY}/" \o p.project_name)

ARTIFACTORY_DOCKER_COMPOSE_TEMPLATE(p) ==
    <<"deploy_production:", "  stage: deploy",
      "DEPLOY STAGE - Artifactory Docker Registry -> Server">>
    \o compose_lines(p, "${ARTIFACTORY_DOCKER_REGISTRY}/",
                     "${ARTIFACTORY_DOCKER_REGISTRY}/" \o p.project_name)

ARTIFACTS_DOCKER_COMPOSE_TEMPLATE(p) ==
    <<"deploy_production:", "  stage: deploy", "  dependencies:", "    - build",
      "DEPLOY STAGE - GitLab Artifacts -> Server">>
    \o (IF p.is_monorepo
        THEN [i \in 1..Len(p.services) |-> "docker load -i " \o p.services[i].name \o "-image.tar"]
        ELSE <<"docker load -i " \o p.project_name \o "-image.tar">>)
    \o compose_lines(p, "", p.project_name)

NEXUS_TO_GITHUB_TEMPLATE(p) ==
    <<"release_github:", "  stage: deploy", "RELEASE STAGE - Nexus -> GitHub",
      "curl -u $NEXUS_USER:$NEXUS_PASSWORD -o " \o p.artifact_name,
      "gh release create $CI_COMMIT_TAG " \o p.artifact_name>>

ARTIFACTORY_TO_GITHUB_TEMPLATE(p) ==
    <<"release_github:", "  stage: deploy", "RELEASE STAGE - Artifactory -> GitHub",
      "curl -u $ARTIFACTORY_USER:$ARTIFACTORY_PASSWORD -o " \o p.artifact_name,
      "gh release create $CI_COMMIT_TAG " \o p.artifact_name>>

ARTIFACTS_TO_GITHUB_TEMPLATE(p) ==
    <<"release_github:", "  stage: deploy", "  dependencies:", "    - build",
      "RELEASE STAGE - GitLab Artifacts -> GitHub",
      "gh release create $CI_COMMIT_TAG " \o p.artifact_name>>

\* five comment lines and nothing else
DOCKER_TO_GITHUB_WARNING_TEMPLATE(p) ==
    <<"# WARNING: docker-registry + github-releases", "# Docker images are not published to GitHub Releases",
      "# Recommended:", "#   - artifacts: --sync nexus/artifactory/gitlab-artifacts",
      "#   - Docker: keep in Docker Registry">>

\* DeployStageGenerator._generate_server_deploy: the text as a one-element
\* sequence, the empty sequence for the None of a sync outside the four
generate_server_deploy(config, sync) ==
    LET p == render_params(config)
    IN CASE sync = "docker-registry" -> Ok(<<DOCKER_REGISTRY_COMPOSE_TEMPLATE(p)>>)
         [] sync = "nexus" -> Ok(<<NEXUS_DOCKER_COMPOSE_TEMPLATE(p)>>)
         [] sync = "artifactory" -> Ok(<<ARTIFACTORY_DOCKER_COMPOSE_TEMPLATE(p)>>)
         [] sync = "gitlab-artifacts" -> Ok(<<ARTIFACTS_DOCKER_COMPOSE_TEMPLATE(p)>>)
         [] OTHER -> Ok(<<>>)

\* DeployStageGenerator._generate_github_release
generate_github_release(config, sync) ==
    LET p == render_params(config)
    IN CASE sync = "nexus" -> Ok(<<NEXUS_TO_GITHUB_TEMPLATE(p)>>)
         [] sync = "artifactory" -> Ok(<<ARTIFACTORY_TO_GITHUB_TEMPLATE(p)>>)
         [] sync = "gitlab-artifacts" -> Ok(<<ARTIFACTS_TO_GITHUB_TEMPLATE(p)>>)
         [] sync = "docker-registry" -> Ok(<<DOCKER_TO_GITHUB_WARNING_TEMPLATE(p)>>)
         [] OTHER -> Ok(<<>>)

\* Mutant: a deploy target that is not server is taken for github.
generate_github_default(config, sync, deploy) ==
    IF deploy = "server" THEN generate_server_deploy(config, sync)
    ELSE generate_github_release(config, sync)

\* DeployStageGenerator(config, sync, deploy).generate()
generate(config, sync, deploy) ==
    IF deploy = "server" THEN generate_server_deploy(config, sync)
    ELSE IF deploy = "github" THEN generate_github_release(config, sync)
    ELSE Raise("ValueError: Unknown deploy target: " \o deploy)


-----------------------------------------------------------------------------
(* FinalCIGenerator (final_ci_generator.py) and the checks of main.py *)

VALID_COMBINATIONS ==
    ("docker-registry" :> {"server", "k8s"})
    @@ ("nexus" :> {"server", "github"})
    @@ ("artifactory" :> {"server", "github"})
    @@ ("gitlab-artifacts" :> {"server", "github"})

validate_combination(sync, deploy) ==
    IF sync \notin DOMAIN VALID_COMBINATIONS THEN FALSE
    ELSE deploy \in VALID_COMBINATIONS[sync]

\* BuildStageGenerator(config, sync_target).get_output_string(): the build job
\* as text, a plain template substitution
BuildStageGenerator(config, sync_target) ==
    <<"build:", "  stage: build", "sync: " \o sync_target>>

\* TestStageGenerator(language, version, dockerfile_info).get_output_string()
TestStageGenerator(lang, version) ==
    <<"test:", "  stage: test", "image: " \o lang \o ":" \o version>>

LintStageGenerator(lang, version) ==
    IF lang \in {"python", "go", "typescript", "java", "kotlin"}
    THEN <<"lint:", "  stage: lint", "version: " \o version>>
    ELSE <<>>

SonarQubeStageGenerator(lang, version) ==
    <<"sonarqube:", "  stage: sonarqube", "-Dsonar.projectVersion=" \o version>>
    \o (IF lang \in {"python", "go", "node", "typescript", "java", "kotlin"}
        THEN <<"-Dsonar.language=" \o lang>> ELSE <<>>)

SecurityStageGenerator(lang, version, has_dockerfile) ==
    (IF lang \in {"python", "go", "typescript", "java", "kotlin"}
     THEN <<"security:", "  stage: security", "version: " \o version>> ELSE <<>>)
    \o (IF has_dockerfile THEN <<"", "security_docker:", "  stage: security">> ELSE <<>>)

Stage(stage_name, content) == [name |-> stage_name, content |-> content]

\* FinalCIGenerator.generate_all_stages: what self.stages holds afterwards (in
\* insertion order) and how the call ended. A stage that raises leaves the
\* stages generated before it.
generate_all_stages(config, sync_target, deploy_target) ==
    LET build == <<Stage("build", BuildStageGenerator(config, sync_target))>>
    IN IF "language" \notin DOMAIN config
       THEN [stages |-> build, exc |-> "KeyError: language"]
       ELSE LET lang == config["language"]
                version == config["version"]
                first == build
                         \o <<Stage("test", TestStageGenerator(lang, version)),
                              Stage("lint", LintStageGenerator(lang, version)),
                              Stage("sonarqube", SonarQubeStageGenerator(lang, version)),
                              Stage("security",
                                    SecurityStageGenerator(lang, version,
                                                           config["dockerfile_exists"]))>>
                deploy == generate(config, sync_target, deploy_target)
            IN IF deploy.exc # NoError THEN [stages |-> first, exc |-> deploy.exc]
               ELSE [stages |-> first \o <<Stage("deploy", deploy.val)>>, exc |-> NoError]

\* the stages list of assemble_config
stages_list(deploy_target) ==
    <<"  - build", "  - test", "  - lint", "  - sonarqube", "  - security",
      "  - integration">>
    \o (IF deploy_target \notin {None, ""} THEN <<"  - deploy">> ELSE <<>>)

\* FinalCIGenerator.assemble_config: the parts of the text in their order
assemble_config(stages, sync_target, deploy_target, env_section) ==
    [stages_list |-> stages_list(deploy_target),
     env_section |-> env_section,
     variables |-> IF sync_target = "docker-registry"
                   THEN <<"DOCKER_IMAGE_TAG", "DOCKER_IMAGE_LATEST", "SSH_PORT",
                          "DEPLOY_ENV", "SONAR_HOST_URL">>
                   ELSE <<"ARTIFACT_VERSION", "SONAR_HOST_URL">>,
     blocks |-> stages]

\* --sync and --deploy choices of main, and values outside them
SyncTargets == {"docker-registry", "nexus", "s3", "artifactory", "gitlab-artifacts"}

DeployTargets == {"server", "k8s", "github", "unknown", None}

TwoServices ==
    <<[name |-> "api", path |-> "./api", dockerfile |-> "api/Dockerfile"],
      [name |-> "web", path |-> "./web", dockerfile |-> "web/Dockerfile"]>>

\* the config dictionaries handed to the generators: summaries of an analysis
\* (language, version, dockerfile_exists present) and sparser dictionaries
DeployConfigs ==
    {l @@ m @@ a @@ e :
        l \in {EmptyDir} \cup {("language" :> x) @@ ("version" :> "1.0")
                               @@ ("dockerfile_exists" :> d) :
                                  x \in {"python", "go", "ruby"}, d \in BOOLEAN},
        m \in {EmptyDir, ("is_monorepo" :> FALSE) @@ ("services" :> <<>>),
               ("is_monorepo" :> TRUE) @@ ("services" :> TwoServices)},
        a \in {EmptyDir, "artifact_paths" :> detect_artifact_paths("go")},
        e \in {EmptyDir,
               "env_summary" :> <<[name |-> "DB_HOST", type |-> "database"],
                                  [name |-> "CI_JOB", type |-> "ci"]>>}}

DeployInit ==
    /\ arg \in [sync : SyncTargets, deploy : DeployTargets]
    /\ \E config \in DeployConfigs : data = [config |-> config, stages |-> <<>>]
    /\ pc = "constructed"
    /\ ret = EmptyDir
    /\ tree = EmptyDir
    /\ test_files = <<>>
    /\ projects = <<>>
    /\ fs = EmptyDir
    /\ docker_gen = FALSE
    /\ raised = NoError

\* DeployStageGenerator(config, sync, deploy).generate()
Generate ==
    /\ ret' = Returned("generate", arg, generate(data.config, arg.sync, arg.deploy))
    /\ UNCHANGED <<fs, docker_gen, pc, data, raised, arg, tree, test_files, projects>>

\* FinalCIGenerator(analyzer, sync, deploy).generate_all_stages()
GenerateAllStages ==
    /\ pc = "constructed"
    /\ LET r == generate_all_stages(data.config, arg.sync, arg.deploy)
       IN /\ data' = [data EXCEPT !.stages = r.stages]
          /\ raised' = r.exc
          /\ pc' = IF r.exc = NoError THEN "generated" ELSE "raised"
          /\ ret' = Returned("generate_all_stages", arg, r)
    /\ UNCHANGED <<fs, docker_gen, arg, tree, test_files, projects>>

\* generator.assemble_config(), for a project without .env files
AssembleConfig ==
    /\ ret' = Returned("assemble_config", arg,
                       assemble_config(data.stages, arg.sync, arg.deploy, <<>>))
    /\ UNCHANGED <<fs, docker_gen, pc, data, raised, arg, tree, test_files, projects>>

DeployNext == Generate \/ GenerateAllStages \/ AssembleConfig

SpecDeploy == DeployInit /\ [][DeployNext]_vars

FourSyncs == {"docker-registry", "nexus", "artifactory", "gitlab-artifacts"}

\* C23: generate dispatches on the deploy target. For server and each of the
\* four syncs the text is a job deploy_production in stage deploy; for github
\* it is a job release_github for nexus, artifactory and gitlab-artifacts and
\* only comment lines for docker-registry; for every other deploy target the
\* call raises ValueError "Unknown deploy target".
C23_GenerateDispatch ==
    Called("generate") =>
        LET r == ret.value
        IN /\ (arg.deploy = "server" /\ arg.sync \in FourSyncs) =>
                /\ r.exc = NoError /\ Len(r.val) = 1
                /\ r.val[1][1] = "deploy_production:"
                /\ r.val[1][2] = "  stage: deploy"
           /\ (arg.deploy = "github" /\ arg.sync \in FourSyncs \ {"docker-registry"}) =>
                /\ r.exc = NoError /\ Len(r.val) = 1
                /\ r.val[1][1] = "release_github:"
           /\ (arg.deploy = "github" /\ arg.sync = "docker-registry") =>
                /\ r.exc = NoError /\ Len(r.val) = 1
                /\ r.val[1] = DOCKER_TO_GITHUB_WARNING_TEMPLATE(render_params(data.config))
                /\ \A i \in 1..Len(r.val[1]) :
                      r.val[1][i] \notin {"release_github:", "deploy_production:",
                                          "  stage: deploy"}
           /\ arg.deploy \notin {"server", "github"} =>
                r = Raise("ValueError: Unknown deploy target: " \o arg.deploy)

\* generate was called with a deploy target outside server and github and raised
C23_Witness ==
    /\ Called("generate") /\ arg.deploy = "unknown" /\ arg.sync = "nexus"
    /\ ret.value.exc = "ValueError: Unknown deploy target: unknown"

\* C25: for every (sync, deploy) pair that validate_combination accepts, the
\* deploy generator returns a text: it neither raises nor returns None.
C25_AcceptedPairsGenerate ==
    (Called("generate") /\ validate_combination(arg.sync, arg.deploy)) =>
        ret.value.exc = NoError /\ ret.value.val # <<>>

\* C30: built without a deploy target, generate_all_stages completes without
\* raising and the stages list of the assembled config has no deploy entry;
\* with a deploy target the stages list ends with deploy.
C30_NoDeployTarget ==
    /\ (Called("generate_all_stages") /\ arg.deploy = None
          /\ "language" \in DOMAIN data.config) => ret.value.exc = NoError
    /\ Called("assemble_config") =>
          LET l == ret.value.stages_list
          IN IF arg.deploy = None
             THEN \A i \in 1..Len(l) : l[i] # "  - deploy"
             ELSE l[Len(l)] = "  - deploy"


-----------------------------------------------------------------------------
(* C24: the catalogue of naming conventions *)

\* The catalogue that the literals of test_patterns list one by one:
\* "tests/**/*.py" and "**/*.test.js" are two of its conventions.
catalogued_patterns ==
    SubSeq(test_patterns, 1, 4)
    \o << <<"tests", "**", "*.py">>, <<"**", "*.test.js">> >>
    \o SubSeq(test_patterns, 6, Len(test_patterns))

\* The regular files below root whose path matches a catalogued convention
CataloguedFiles(root) ==
    {root \o p : p \in {q \in Below(tree, root) :
                            /\ is_file(tree, root \o q)
                            /\ \E i \in 1..Len(catalogued_patterns) :
                                    /\ valid_pattern(catalogued_patterns[i])
                                    /\ path_match(catalogued_patterns[i], q)}}

\* C24: every regular file of the project tree whose name matches one of the
\* catalogued naming conventions is in the result of discover_test_files, a
\* file <x>.test.js outside test/ and cypress/ included.
C24_CataloguedFilesDiscovered ==
    Called("discover_test_files") =>
        CataloguedFiles(ret.path) \subseteq {ret.value[i] : i \in 1..Len(ret.value)}


-----------------------------------------------------------------------------
(* EnvAnalyzer (env_analyzer.py): parsing, classification and the outputs *)

MaxEnvLines == 2    \* lines of the .env file

\* A line of an env file is the sequence of its pieces: names and values, the
\* separator "=", the comment sign "#", a quote, and " " for white space.
RECURSIVE lstrip(_, _)
lstrip(pieces, chars) ==
    IF pieces # <<>> /\ Head(pieces) \in chars THEN lstrip(Tail(pieces), chars) ELSE pieces

RECURSIVE rstrip(_, _)
rstrip(pieces, chars) ==
    IF pieces # <<>> /\ pieces[Len(pieces)] \in chars
    THEN rstrip(SubSeq(pieces, 1, Len(pieces) - 1), chars) ELSE pieces

\* str.strip(chars)
strip_chars(pieces, chars) == rstrip(lstrip(pieces, chars), chars)

\* the pieces written one after the other
RECURSIVE join(_)
join(pieces) == IF pieces = <<>> THEN "" ELSE Head(pieces) \o join(Tail(pieces))

\* str.lower() of a key
key_lower(key) ==
    CASE key = "DB_PASSWORD" -> "db_password"
      [] key = "SECRET_KEY" -> "secret_key"
      [] key = "Monkey" -> "monkey"
      [] key = "DEBUG" -> "debug"
      [] key = "APP_PORT" -> "app_port"
      [] key = "DB_HOST" -> "db_host"
      [] key = "CI_JOB" -> "ci_job"
      [] key = "BASE_URL" -> "base_url"
      [] OTHER -> key

\* str.upper() of a key
key_upper(key) == IF key = "Monkey" THEN "MONKEY" ELSE key

SENSITIVE_PATTERNS ==
    <<".*password.*", ".*secret.*", ".*key.*", ".*token.*", ".*api.*key.*",
      ".*private.*", ".*credential.*", ".*auth.*">>

DATABASE_PATTERNS ==
    <<".*database.*", ".*db.*", ".*postgres.*", ".*mysql.*", ".*mongo.*", ".*redis.*">>

\* re.match(pattern, text) for the patterns above and the lower-case keys
re_match(pattern, text) ==
    CASE pattern = ".*password.*" -> text = "db_password"
      [] pattern = ".*secret.*" -> text = "secret_key"
      [] pattern = ".*key.*" -> text \in {"secret_key", "monkey"}
      [] pattern = ".*db.*" -> text \in {"db_password", "db_host"}
      [] OTHER -> FALSE

\* EnvAnalyzer._is_sensitive
is_sensitive(key) ==
    \E i \in 1..Len(SENSITIVE_PATTERNS) : re_match(SENSITIVE_PATTERNS[i], key_lower(key))

\* EnvAnalyzer._is_required
is_required(key) ==
    key_upper(key) \in {"DATABASE_URL", "DATABASE_HOST", "DB_HOST", "POSTGRES_HOST",
                        "REDIS_URL", "SECRET_KEY", "JWT_SECRET"}

\* EnvAnalyzer._classify_variable
classify_variable(key) ==
    LET k == key_lower(key)
    IN IF is_sensitive(key) THEN "secret"
       ELSE IF \E i \in 1..Len(DATABASE_PATTERNS) : re_match(DATABASE_PATTERNS[i], k)
            THEN "database"
       ELSE IF k \in {"ci_job"} THEN "ci"
       ELSE IF k \in {"debug", "environment", "env", "node_env"} THEN "config"
       ELSE IF k \in {"base_url"} THEN "url"
       ELSE IF k \in {"app_port"} THEN "port"
       ELSE "general"

\* the index of the first "=" of a line, 0 when it has none
RECURSIVE first_eq(_, _)
first_eq(pieces, i) ==
    IF i > Len(pieces) THEN 0 ELSE IF pieces[i] = "=" THEN i ELSE first_eq(pieces, i + 1)

\* dict assignment: a key that is there keeps its place
dict_assign(d, entry) ==
    IF \E i \in 1..Len(d) : d[i].key = entry.key
    THEN [i \in 1..Len(d) |-> IF d[i].key = entry.key THEN entry ELSE d[i]]
    ELSE Append(d, entry)

\* Mutant: the value is stored as it stands in the file.
parse_env_line_unmasked(env_vars, raw, filename, line_num) ==
    LET line == strip_chars(raw, {" "})
        eq == first_eq(line, 1)
    IN IF line = <<>> \/ Head(line) = "#" \/ eq = 0 THEN env_vars
       ELSE LET key == join(strip_chars(SubSeq(line, 1, eq - 1), {" "}))
                value == join(strip_chars(strip_chars(strip_chars(
                                  SubSeq(line, eq + 1, Len(line)), {" "}), {"\""}), {"'"}))
            IN dict_assign(env_vars,
                           [key |-> key, value |-> value, type |-> classify_variable(key),
                            source |-> filename, line |-> line_num,
                            is_sensitive |-> is_sensitive(key),
                            is_required |-> is_required(key)])

\* the body of the loop of EnvAnalyzer._parse_env_file, for one line
parse_env_line(env_vars, raw, filename, line_num) ==
    LET line == strip_chars(raw, {" "})
        eq == first_eq(line, 1)
    IN IF line = <<>> \/ Head(line) = "#" \/ eq = 0 THEN env_vars
       ELSE LET key == join(strip_chars(SubSeq(line, 1, eq - 1), {" "}))
                value == join(strip_chars(strip_chars(strip_chars(
                                  SubSeq(line, eq + 1, Len(line)), {" "}), {"\""}), {"'"}))
            IN dict_assign(env_vars,
                           [key |-> key,
                            value |-> IF ~is_sensitive(key) THEN value ELSE "***",
                            type |-> classify_variable(key),
                            source |-> filename, line |-> line_num,
                            is_sensitive |-> is_sensitive(key),
                            is_required |-> is_required(key)])

\* EnvAnalyzer._parse_env_file
RECURSIVE parse_env_file(_, _, _, _)
parse_env_file(env_vars, ls, filename, line_num) ==
    IF line_num > Len(ls) THEN env_vars
    ELSE parse_env_file(parse_env_line(env_vars, ls[line_num], filename, line_num),
                        ls, filename, line_num + 1)

\* EnvAnalyzer._analyze: env_vars after the files of env_patterns, in their order
RECURSIVE env_vars_of(_, _, _)
env_vars_of(d, env_vars, i) ==
    IF i > Len(ENV_PATTERNS) THEN env_vars
    ELSE env_vars_of(d,
                     IF ENV_PATTERNS[i] \in DOMAIN d /\ d[ENV_PATTERNS[i]].readable
                     THEN parse_env_file(env_vars, d[ENV_PATTERNS[i]].lines,
                                         ENV_PATTERNS[i], 1)
                     ELSE env_vars,
                     i + 1)

\* EnvAnalyzer(project_path): the fields of the object
EnvAnalyzer(d) == [env_files |-> env_files(d, 1), env_vars |-> env_vars_of(d, <<>>, 1)]

\* EnvAnalyzer.get_summary
env_get_summary(self) ==
    [env_files |-> self.env_files,
     total_vars |-> Len(self.env_vars),
     sensitive_vars |-> Len(SelectSeq(self.env_vars, LAMBDA v : v.is_sensitive)),
     required_vars |-> Len(SelectSeq(self.env_vars, LAMBDA v : v.is_required)),
     variables |-> self.env_vars]

\* EnvAnalyzer.generate_gitlab_ci_env_section: the lines "  NAME: "value""
generate_gitlab_ci_env_section(self) ==
    LET non_sensitive ==
            SelectSeq(self.env_vars,
                      LAMBDA v : ~v.is_sensitive /\ v.type \in {"config", "general", "port"})
    IN IF non_sensitive = <<>> THEN <<>>
       ELSE <<<<"variables:">>>>
            \o [i \in 1..Len(non_sensitive) |->
                    <<non_sensitive[i].key, non_sensitive[i].value>>]
            \o <<<<"# Sensitive variables should be set in GitLab">>>>

\* sorted(by_type.items()): the types in the order of their names
SORTED_TYPES == <<"ci", "config", "database", "general", "port", "secret", "url">>

doc_row(v) ==
    <<v.key, "Variable", v.is_sensitive, v.is_sensitive,
      IF ~v.is_sensitive THEN v.value ELSE "<SET_YOUR_VALUE>">>

example_row(v) ==
    IF v.is_sensitive THEN <<v.key, "=", "<YOUR_" \o v.key \o "_HERE>">>
    ELSE <<v.key, "=", v.value>>

\* the groups of by_type in the order of the type names, each with its
\* heading and a row per variable; document is "doc" or "example"
RECURSIVE by_type_rows(_, _, _)
by_type_rows(self, i, document) ==
    IF i > Len(SORTED_TYPES) THEN <<>>
    ELSE LET vars_list == SelectSeq(self.env_vars, LAMBDA v : v.type = SORTED_TYPES[i])
         IN (IF vars_list = <<>> THEN <<>>
             ELSE <<<<"#", SORTED_TYPES[i]>>>>
                  \o [j \in 1..Len(vars_list) |->
                         IF document = "doc" THEN doc_row(vars_list[j])
                         ELSE example_row(vars_list[j])])
            \o by_type_rows(self, i + 1, document)

\* EnvAnalyzer.generate_gitlab_variables_documentation: the table rows
generate_gitlab_variables_documentation(self) ==
    IF self.env_vars = <<>> THEN <<>>
    ELSE <<<<"# GitLab CI/CD Variables">>>> \o by_type_rows(self, 1, "doc")

\* EnvAnalyzer.generate_env_example
generate_env_example(self) ==
    IF self.env_vars = <<>> THEN <<>>
    ELSE <<<<"# Environment Variables Example">>>> \o by_type_rows(self, 1, "example")

\* The lines an env file is written with
EnvLines ==
    {<<"DB_PASSWORD", "=", "hunter2">>,
     <<"Monkey", " ", "=", " ", "\"", "banana", "\"">>,
     <<"SECRET_KEY", "=", "a", "=", "b">>,
     <<"DEBUG", "=", "true">>,
     <<"APP_PORT", "=", "'", "8080", "'">>,
     <<"DB_HOST", "=", "localhost">>,
     <<"#", " ", "DB_PASSWORD", "=", "old">>,
     <<"export">>,
     <<>>}

\* The project directories: a .env of at most MaxEnvLines lines, beside it
\* possibly a .env.production
EnvDirs ==
    {(".env" :> File(ls)) @@ prod :
        ls \in SeqsUpTo(EnvLines, MaxEnvLines),
        prod \in {EmptyDir,
                  ".env.production" :> File(<<<<"DB_PASSWORD", "=", "prod">>>>),
                  ".env.production" :> File(<<<<"DEBUG", "=", "false">>>>)}}

\* the key of a line that assigns a sensitive key, else no key
sensitive_assignment(raw) ==
    LET line == strip_chars(raw, {" "})
        eq == first_eq(line, 1)
    IN /\ line # <<>> /\ Head(line) # "#" /\ eq > 0
       /\ is_sensitive(join(strip_chars(SubSeq(line, 1, eq - 1), {" "})))

\* the values a secret may have instead
OtherSecrets == {<<"s3cr3t">>, <<"\"", "p=q", "\"">>}

\* the lines that differ from raw in the value of a sensitive key at most
line_variants(raw) ==
    IF sensitive_assignment(raw)
    THEN {raw} \cup {SubSeq(raw, 1, first_eq(raw, 1)) \o v : v \in OtherSecrets}
    ELSE {raw}

\* the files that differ from ls in the values of sensitive keys at most
RECURSIVE lines_variants(_)
lines_variants(ls) ==
    IF ls = <<>> THEN {<<>>}
    ELSE {<<h>> \o t : h \in line_variants(Head(ls)), t \in lines_variants(Tail(ls))}

\* the directories that differ from d in the values of sensitive keys at most
dir_variants(d) ==
    {(".env" :> File(x)) @@ prod :
        x \in lines_variants(d[".env"].lines),
        prod \in IF ".env.production" \in DOMAIN d
                 THEN {".env.production" :> File(y) :
                          y \in lines_variants(d[".env.production"].lines)}
                 ELSE {EmptyDir}}

\* Two project directories that differ only in the values of sensitive keys:
\* fs is analysed by one EnvAnalyzer, tree by another.
EnvInit ==
    /\ fs \in EnvDirs
    /\ tree \in dir_variants(fs)
    /\ data = [a |-> EnvAnalyzer(fs), b |-> EnvAnalyzer(tree)]
    /\ pc = "env"
    /\ ret = EmptyDir
    /\ arg = None
    /\ test_files = <<>>
    /\ projects = <<>>
    /\ docker_gen = FALSE
    /\ raised = NoError

\* get_summary() of both analyzers
EnvGetSummary ==
    /\ pc = "env"
    /\ ret' = Returned("get_summary", <<>>,
                       [a |-> env_get_summary(data.a), b |-> env_get_summary(data.b)])
    /\ UNCHANGED <<fs, docker_gen, pc, data, raised, arg, tree, test_files, projects>>

\* generate_gitlab_ci_env_section() of both analyzers
EnvSection ==
    /\ pc = "env"
    /\ ret' = Returned("generate_gitlab_ci_env_section", <<>>,
                       [a |-> generate_gitlab_ci_env_section(data.a),
                        b |-> generate_gitlab_ci_env_section(data.b)])
    /\ UNCHANGED <<fs, docker_gen, pc, data, raised, arg, tree, test_files, projects>>

\* generate_gitlab_variables_documentation() of both analyzers
EnvDocumentation ==
    /\ pc = "env"
    /\ ret' = Returned("generate_gitlab_variables_documentation", <<>>,
                       [a |-> generate_gitlab_variables_documentation(data.a),
                        b |-> generate_gitlab_variables_documentation(data.b)])
    /\ UNCHANGED <<fs, docker_gen, pc, data, raised, arg, tree, test_files, projects>>

\* generate_env_example() of both analyzers
EnvExample ==
    /\ pc = "env"
    /\ ret' = Returned("generate_env_example", <<>>,
                       [a |-> generate_env_example(data.a),
                        b |-> generate_env_example(data.b)])
    /\ UNCHANGED <<fs, docker_gen, pc, data, raised, arg, tree, test_files, projects>>

EnvNext == EnvGetSummary \/ EnvSection \/ EnvDocumentation \/ EnvExample

SpecEnv == EnvInit /\ [][EnvNext]_vars

\* C29: two sets of env files that differ only in the values of sensitive keys
\* give the same summary, the same variables section, the same
\* GITLAB_VARIABLES.md and the same .env.example; the summary holds *** for
\* the value of every sensitive key, and the variables section names no
\* sensitive key.
C29_SecretsDoNotFlow ==
    /\ ret # EmptyDir => ret.value.a = ret.value.b
    /\ Called("get_summary") =>
          \A i \in 1..Len(ret.value.a.variables) :
              LET v == ret.value.a.variables[i]
              IN /\ v.is_sensitive = is_sensitive(v.key)
                 /\ v.is_sensitive => v.value = "***"
    /\ Called("generate_gitlab_ci_env_section") =>
          \A i \in 1..Len(ret.value.a) : ~is_sensitive(ret.value.a[i][1])

\* the .env.example of two directories that give Monkey different values has
\* the placeholder row for Monkey and the value of DEBUG
C29_Witness ==
    /\ Called("generate_env_example")
    /\ fs[".env"].lines = << <<"Monkey", " ", "=", " ", "\"", "banana", "\"">>,
                             <<"DEBUG", "=", "true">> >>
    /\ tree[".env"].lines = << <<"Monkey", " ", "=", "s3cr3t">>, <<"DEBUG", "=", "true">> >>
    /\ ret.value.b = << <<"# Environment Variables Example">>, <<"#", "config">>,
                        <<"DEBUG", "=", "true">>, <<"#", "secret">>,
                        <<"Monkey", "=", "<YOUR_Monkey_HERE>">> >>


-----------------------------------------------------------------------------
(* TestFramework.analyze_all_projects *)

\* What analyze_single_project(root) can return on the tree t, for the orders
\* in which glob and rglob can yield
single_results(t, root) ==
    {analyze_single_project(t, root, files, order, csprojs) :
        files \in discover_test_files(t, root),
        order \in rglob_orders(t, root),
        csprojs \in csproj_orders(t, root)}

\* the entry of the except branch
error_entry(project, e) ==
    [error |-> e, project_root |-> project.path, language |-> project.language,
     status |-> "error"]

\* Mutant: after an exception every project still to come is entered as an
\* error too.
RECURSIVE analyze_all_projects_poisoned(_, _, _, _, _)
analyze_all_projects_poisoned(t, projs, failing, i, results) ==
    IF i > Len(projs) THEN {results}
    ELSE LET entries == IF \E j \in 1..i : projs[j].name \in failing
                        THEN {error_entry(projs[i], "OSError")}
                        ELSE single_results(t, projs[i].path)
         IN UNION {analyze_all_projects_poisoned(t, projs, failing, i + 1,
                                                 (projs[i].name :> e) @@ results) :
                      e \in entries}

\* The loop of analyze_all_projects over self.projects: the dictionaries it
\* can return. `failing` holds the names of the projects whose analysis raises
\* (an I/O error of the file system); results[project.name] = ... replaces an
\* entry of the same name.
RECURSIVE analyze_all_projects(_, _, _, _, _)
analyze_all_projects(t, projs, failing, i, results) ==
    IF i > Len(projs) THEN {results}
    ELSE LET entries == IF projs[i].name \in failing
                        THEN {error_entry(projs[i], "OSError")}
                        ELSE single_results(t, projs[i].path)
         IN UNION {analyze_all_projects(t, projs, failing, i + 1,
                                        (projs[i].name :> e) @@ results) :
                      e \in entries}

\* The second project of the base directory: a Python project with one test
QProject ==
    (<<"test_foo.py">> :> Text("import unittest")) @@ (<<"requirements.txt">> :> Text(""))

\* A base directory with the child directories p (at most MaxFiles entries of
\* one family) and q; a new TestFramework on it
AllInit ==
    /\ \E family \in Families :
       \E S \in {X \in SUBSET FamilyPaths(family) : Cardinality(X) <= MaxFiles} :
       \E tp \in TreesOver(S) :
            tree = (P :> Dir) @@ (Q :> Dir) @@ Under(P, tp) @@ Under(Q, QProject)
    /\ test_files = <<>>
    /\ projects = <<>>
    /\ pc = "all"
    /\ ret = EmptyDir
    /\ arg = None
    /\ fs = EmptyDir
    /\ docker_gen = FALSE
    /\ data = EmptyDir
    /\ raised = NoError

\* framework.discover_projects() before the analysis
AllDiscoverProjects ==
    /\ pc = "all"
    /\ \E items \in Orderings(iterdir(tree)) :
        /\ projects' = discover_projects(tree, items)
        /\ ret' = Returned("discover_projects", <<>>, projects')
    /\ UNCHANGED <<fs, docker_gen, pc, data, raised, arg, tree, test_files>>

\* framework.analyze_all_projects(): the projects are discovered when none are
\* known; self.test_files is left as the last discovery left it
AnalyzeAllProjects ==
    /\ pc = "all"
    /\ \E items \in Orderings(iterdir(tree)), failing \in SUBSET {"p", "q"} :
        LET projs == IF projects # <<>> THEN projects ELSE discover_projects(tree, items)
        IN /\ projects' = projs
           /\ \E results \in analyze_all_projects(tree, projs, failing, 1, EmptyDir) :
                ret' = Returned("analyze_all_projects", failing, results)
           /\ \E files \in (IF projs = <<>> THEN {test_files}
                            ELSE discover_test_files(tree, projs[Len(projs)].path)) :
                test_files' = files
    /\ UNCHANGED <<fs, docker_gen, pc, data, raised, arg, tree>>

AllNext == AllDiscoverProjects \/ AnalyzeAllProjects

SpecAll == AllInit /\ [][AllNext]_vars

\* The names of the projects of the base directory
ProjectNames ==
    {path_name(c) : c \in {d \in iterdir(tree) :
                              /\ is_dir(tree, d) /\ ~hidden(path_name(d))
                              /\ analyze_project_candidate(tree, d) # <<>>}}

\* C28: analyze_all_projects returns one entry per discovered project. The
\* entry of a project whose analysis raised has status error, and the entry
\* of every other project is one that analyze_single_project returns for that
\* project alone, in whatever order the projects are analysed.
C28_OneEntryPerProject ==
    Called("analyze_all_projects") =>
        /\ DOMAIN ret.value = ProjectNames
        /\ \A n \in ProjectNames :
              IF n \in ret.path
              THEN /\ ret.value[n].status = "error"
                   /\ ret.value[n].project_root = <<n>>
              ELSE /\ ret.value[n].status = "success"
                   /\ ret.value[n] \in single_results(tree, <<n>>)

\* p raised and was analysed before q (its confidence is the greater one):
\* p has the error entry, q the entry of a unittest project
C28_Witness ==
    /\ Called("analyze_all_projects")
    /\ ret.path = {"p"}
    /\ Len(projects) = 2 /\ projects[1].name = "p"
    /\ ret.value["p"].status = "error"
    /\ ret.value["q"].status = "success"
    /\ ret.value["q"].test_type = "UNITTEST"


-----------------------------------------------------------------------------
(* main (main.py): the run of the generator *)

\* auto_detect_sync_deploy: the assignments in the order of the source
auto_detect_sync_deploy(summary) ==
    LET s0 == [sync |-> "docker-registry", deploy |-> "server"]
        s1 == IF dict_get(summary, "dockerfile_exists", FALSE)
              THEN [sync |-> "docker-registry", deploy |-> "server"] ELSE s0
        s2 == IF dict_get(summary, "docker_compose_exists", FALSE)
              THEN [sync |-> "docker-registry", deploy |-> "server"] ELSE s1
        s3 == IF dict_get(summary, "is_monorepo", FALSE)
              THEN [sync |-> "docker-registry", deploy |-> "server"] ELSE s2
        artifact_type == IF "artifact_paths" \in DOMAIN summary
                         THEN summary["artifact_paths"].artifact_type ELSE None
    IN IF artifact_type \in {"jar", "wheel", "npm", "gem"}
       THEN [sync |-> "nexus", deploy |-> "github"] ELSE s3

\* analyzer.get_summary() of an analysis that succeeded. With docker_gen the
\* analysis has written the missing Dockerfile, a monorepo has a compose file.
Summaries(gen) ==
    {("language" :> l) @@ ("version" :> "1.0") @@ ("dockerfile_exists" :> d)
     @@ ("docker_compose_exists" :> cm[1]) @@ ("is_monorepo" :> cm[2])
     @@ ("services" :> IF cm[2] THEN TwoServices ELSE <<>>)
     @@ ("artifact_paths" :> detect_artifact_paths(l)) :
        l \in Languages, d \in IF gen THEN {TRUE} ELSE BOOLEAN,
        cm \in {<<FALSE, FALSE>>, <<TRUE, FALSE>>, <<TRUE, TRUE>>}}

\* main() has parsed its arguments: --sync and --deploy are a choice or
\* missing, --repo is a local path or a URL; nothing is in the output directory
MainInit ==
    /\ arg \in [repo : {"/path/to/project", "https://github.com/user/repo.git"},
                sync : SyncTargets \cup {None},
                deploy : {"server", "k8s", "github", None}]
    /\ docker_gen \in BOOLEAN
    /\ pc = "clone"
    /\ data = [summary |-> EmptyDir, env_vars |-> FALSE, sync |-> None, deploy |-> None,
               stages |-> <<>>]
    /\ fs = EmptyDir
    /\ raised = NoError
    /\ ret = EmptyDir
    /\ tree = EmptyDir
    /\ test_files = <<>>
    /\ projects = <<>>

\* sys.exit(1)
Exit1 ==
    /\ raised' = "SystemExit: 1"
    /\ pc' = "exit"
    /\ UNCHANGED <<fs, docker_gen, data, arg, ret, tree, test_files, projects>>

\* Step 0: a URL is cloned, which can fail
Clone ==
    /\ pc = "clone"
    /\ IF arg.repo = "https://github.com/user/repo.git"
       THEN \/ /\ pc' = "analyze"
               /\ UNCHANGED <<fs, docker_gen, data, raised, arg, ret, tree, test_files,
                              projects>>
            \/ Exit1
       ELSE /\ pc' = "analyze"
            /\ UNCHANGED <<fs, docker_gen, data, raised, arg, ret, tree, test_files, projects>>

\* Step 1: ProjectAnalyzer(project_path, docker_gen) returns or raises
Analyze ==
    /\ pc = "analyze"
    /\ \/ /\ \E summary \in Summaries(docker_gen), env_vars \in BOOLEAN :
                data' = [data EXCEPT !.summary = summary, !.env_vars = env_vars]
          /\ pc' = "configure"
          /\ UNCHANGED <<fs, docker_gen, raised, arg, ret, tree, test_files, projects>>
       \/ Exit1

\* Step 2: sync and deploy as given, else as detected
Configure ==
    /\ pc = "configure"
    /\ LET auto_config == auto_detect_sync_deploy(data.summary)
       IN data' = [data EXCEPT
                     !.sync = IF arg.sync = None \/ arg.deploy = None
                              THEN (IF arg.sync # None THEN arg.sync ELSE auto_config.sync)
                              ELSE arg.sync,
                     !.deploy = IF arg.sync = None \/ arg.deploy = None
                                THEN (IF arg.deploy # None THEN arg.deploy
                                      ELSE auto_config.deploy)
                                ELSE arg.deploy]
    /\ pc' = "validate"
    /\ UNCHANGED <<fs, docker_gen, raised, arg, ret, tree, test_files, projects>>

\* Mutant: the combination is not validated.
Validate_skipped ==
    /\ pc = "validate"
    /\ pc' = "check_dockerfile"
    /\ UNCHANGED <<fs, docker_gen, data, raised, arg, ret, tree, test_files, projects>>

\* Step 3, first part: the combination
Validate ==
    /\ pc = "validate"
    /\ IF ~validate_combination(data.sync, data.deploy) THEN Exit1
       ELSE /\ pc' = "check_dockerfile"
            /\ UNCHANGED <<fs, docker_gen, data, raised, arg, ret, tree, test_files, projects>>

\* Step 3, second part: docker-registry needs a Dockerfile
CheckDockerfile ==
    /\ pc = "check_dockerfile"
    /\ IF ~data.summary["dockerfile_exists"] /\ data.sync = "docker-registry" /\ ~docker_gen
       THEN Exit1
       ELSE /\ pc' = "generate"
            /\ UNCHANGED <<fs, docker_gen, data, raised, arg, ret, tree, test_files, projects>>

\* Step 4: FinalCIGenerator(analyzer, sync, deploy).generate_all_stages()
GenerateStages ==
    /\ pc = "generate"
    /\ LET r == generate_all_stages(data.summary, data.sync, data.deploy)
       IN IF r.exc # NoError THEN Exit1
          ELSE /\ data' = [data EXCEPT !.stages = r.stages]
               /\ pc' = "save"
               /\ UNCHANGED <<fs, docker_gen, raised, arg, ret, tree, test_files, projects>>

\* Step 5: generator.save('/output/.gitlab-ci.yml'); open() or write() can
\* fail, a failed write leaves the file with a part of the text
Save ==
    /\ pc = "save"
    /\ LET config == assemble_config(data.stages, data.sync, data.deploy,
                                     IF data.env_vars THEN <<<<"variables:">>>> ELSE <<>>)
       IN \/ /\ fs' = fs @@ (".gitlab-ci.yml" :> config)
             /\ pc' = "documents"
             /\ UNCHANGED <<docker_gen, data, raised, arg, ret, tree, test_files, projects>>
          \/ /\ fs' = fs @@ (".gitlab-ci.yml" :> [config EXCEPT !.blocks = <<>>])
             /\ raised' = "SystemExit: 1"
             /\ pc' = "exit"
             /\ UNCHANGED <<docker_gen, data, arg, ret, tree, test_files, projects>>
          \/ Exit1

\* GITLAB_VARIABLES.md and .env.example, written when the analyzer found
\* variables; then the summary is printed and main returns
Documents ==
    /\ pc = "documents"
    /\ fs' = IF data.env_vars
             THEN fs @@ ("GITLAB_VARIABLES.md" :> "doc") @@ (".env.example" :> "example")
             ELSE fs
    /\ pc' = "done"
    /\ UNCHANGED <<docker_gen, data, raised, arg, ret, tree, test_files, projects>>

MainNext ==
    \/ Clone
    \/ Analyze
    \/ Configure
    \/ Validate
    \/ CheckDockerfile
    \/ GenerateStages
    \/ Save
    \/ Documents

SpecMain == MainInit /\ [][MainNext]_vars

\* C26: when sync and deploy are both detected, a project with a Dockerfile,
\* with a compose file or a monorepo gets docker-registry and server, whatever
\* its language.
C26_DockerProjectsToServer ==
    (/\ pc = "validate" /\ arg.sync = None /\ arg.deploy = None
     /\ \/ data.summary["dockerfile_exists"]
        \/ data.summary["docker_compose_exists"]
        \/ data.summary["is_monorepo"]) =>
        data.sync = "docker-registry" /\ data.deploy = "server"

\* the steps of main that come before the output, in their order
StepsBeforeOutput == <<"analyze", "configure", "validate", "check_dockerfile", "generate", "save">>

====
